---- MODULE Spec2Model ----
(***************************************************************************)
(* Model of pravah_core::engine::process_data: a directory walk that       *)
(* filters entries, acquires a semaphore permit per admitted file, spawns  *)
(* one task per file, joins every task and returns the two counters.       *)
(***************************************************************************)
EXTENDS Integers, Sequences, FiniteSets, TLC

(* ---- bounds of the model ---- *)

\* Longest sequence of items the walker yields for one job.
MaxEntries == 3

\* Longest path of the path computation, in components.
MaxDepth == 3

\* Longest input_path and output_path of the path computation, in components.
MaxRootDepth == 1

\* Longest file content of the process_file model, in bytes.
MaxLen == 3

\* Largest num_lines of ExtractFirstLines.
MaxNumLines == 3

\* Largest number of entries of one insert_file_metadata batch.
MaxBatch == 2

\* Longest input of evaluate, in characters.
MaxInputLen == 5

\* Most lines of standard input.
MaxStdinLines == 3

\* Longest output path a task writes, in components.
MaxPathLen == 4

\* Capacity of the semaphore.  The source fixes it at 500 (engine.rs:150);
\* the model scales it down so that the gate saturates within MaxEntries.
max_concurrent_io_tasks == 2

(* ---- inputs ---- *)

NoExt == "none"
Extensions == {"txt", "log"}

\* Option<HashSet<String>>: some = FALSE is None.
NoneFilter == [some |-> FALSE, set |-> {}]
SomeFilter(s) == [some |-> TRUE, set |-> s]

\* Option<usize> of the job's requested concurrency.
NoneConcurrency == [some |-> FALSE, value |-> 0]
SomeConcurrency(k) == [some |-> TRUE, value |-> k]

\* The parameters the jobs of the model are started with.  process_data never
\* reads max_concurrency, so its values are spread over the filter
\* configurations instead of being crossed with them.
JobChoices ==
    {[file_filters |-> [include_extensions |-> NoneFilter,
                        exclude_extensions |-> NoneFilter],
      max_concurrency |-> NoneConcurrency],
     [file_filters |-> [include_extensions |-> SomeFilter({"txt"}),
                        exclude_extensions |-> NoneFilter],
      max_concurrency |-> SomeConcurrency(1)],
     [file_filters |-> [include_extensions |-> NoneFilter,
                        exclude_extensions |-> SomeFilter({"log"})],
      max_concurrency |-> NoneConcurrency],
     [file_filters |-> [include_extensions |-> SomeFilter({"txt", "log"}),
                        exclude_extensions |-> SomeFilter({"log"})],
      max_concurrency |-> SomeConcurrency(0)]}

\* Items of the lazy sequence WalkDir yields: Err(e), or Ok(entry) where the
\* entry is a directory or a regular file with an optional extension.
\* relOk = FALSE marks an entry whose strip_prefix(input_path) fails.
ErrItem == [kind |-> "err", ext |-> NoExt, relOk |-> TRUE]
DirItem == [kind |-> "dir", ext |-> NoExt, relOk |-> TRUE]
FileItems == [kind : {"file"}, ext : Extensions \cup {NoExt}, relOk : {TRUE}]
PathErrItem == [kind |-> "file", ext |-> "txt", relOk |-> FALSE]
WalkItems == {ErrItem, DirItem, PathErrItem} \cup FileItems

TaskIds == 1..MaxEntries

VARIABLES
    rootExists,          \* whether params.input_path exists on disk
    file_filters,        \* params.file_filters
    max_concurrency,     \* the caller's requested concurrency (never read)
    walked,              \* items the WalkDir iterator has yielded so far
    pc,                  \* position of process_data
    permits,             \* permits available in the semaphore
    task,                \* task[i]: state of the task spawned for walked[i]
    outcome,             \* outcome[i]: how process_file ended for walked[i]
    processing_futures,  \* join handles not yet awaited, in push order
    total_files_processed,
    errors_encountered,
    okIncs,              \* okIncs[i]: increments of total_files_processed due to file i
    errIncs,             \* errIncs[i]: increments of errors_encountered due to file i
    result,              \* the returned ProcessingResult, once produced
    \* the output path computation of lines 199-217, for two walked entries
    input_path,          \* PathBuf::from(&params.input_path), as components
    output_base_path,    \* PathBuf::from(&params.output_path), as components
    entry_path,          \* entry_path[k]: entry.path() of entry k
    output_file_path,    \* output_file_path[k]: what lines 200-210 made of it
    \* one process_file call (lines 27-124) and the match on it (227-235)
    processing_action,   \* params.processing_action
    in_content,          \* bytes of the input file
    out_before,          \* the output file when process_file is called
    out_file,            \* the output file: whether it exists, and its bytes
    out_parent_exists,   \* whether the directories of output_path.parent() exist
    output_has_parent,   \* whether output_path.parent() is Some
    sPc,                 \* position of process_file
    sResult,             \* what process_file returned
    output_content_lines,\* the lines ExtractFirstLinesProcessor has read
    failedStep,          \* the I/O step of this call that failed, if one did
    \* WalkDir over a root directory that holds symbolic links (lines 160-174)
    dir_entries,         \* the entries of the root directory, by type
    walk_at,             \* the iterator's position: entry, and whether below it
    files_seen,          \* entries that passed `is_file` at line 172
    \* DatabaseManager (sanchay_core database.rs)
    files,               \* the committed rows of table `files`
    tx_files,            \* the rows as the open transaction sees them
    tx_count,            \* entries of the batch executed so far
    db_pc,               \* "idle", or "tx" inside insert_file_metadata
    db_result,           \* what the last insert_file_metadata returned
    last_insert,         \* per path: checksum of its last committed insert
    tx_last,             \* the same, as of the open transaction
    duplicates,          \* what the last get_duplicate_files returned
    \* walk_directory_parallel (sanchay_core walker.rs)
    root_type,           \* what root_path is: missing, a file, a directory
    tree,                \* tree[k]: what lies at slot k below the root
    walker_pc,           \* "start", "walking" or "returned"
    iter_next,           \* the slot the WalkDir iterator looks at next
    pending,             \* items handed to rayon and not yet filtered
    collected,           \* the paths collected so far, in collection order
    walk_result,         \* what walk_directory_parallel returned
    \* RustCalc (parser.rs)
    calc_input,          \* the input of evaluate, a sequence of characters
    calc_pc,             \* "called" or "returned"
    calc_result,         \* what evaluate returned
    \* RustCalc (cli.rs)
    cli_args,            \* args: the expression option and the interactive flag
    stdin,               \* the lines read from standard input so far
    stdin_eof,           \* whether read_line has met the end of input
    cli_pc,              \* position of run
    cli_input,           \* `input` of line 33, as read_line left it
    cli_log,             \* what was printed to stdout and stderr, in order
    cli_result,          \* what run returned
    \* the walk over a tree that the tasks write into (engine.rs)
    fs_files,            \* the paths of the regular files that exist
    fs_dirs,             \* the paths of the directories that exist
    start_files,         \* the regular files that existed when the job started
    dir_stack,           \* the directories WalkDir has open, the root first
    dispatched,          \* the files a task was spawned for
    written,             \* those whose task has written its output
    nested_pc            \* "walk" or "walked"

pathVars == <<input_path, output_base_path, entry_path, output_file_path>>

stratVars == <<processing_action, in_content, out_before, out_file,
               out_parent_exists, output_has_parent, sPc, sResult,
               output_content_lines, failedStep>>

linkVars == <<dir_entries, walk_at, files_seen>>

dbVars == <<files, tx_files, tx_count, db_pc, db_result, last_insert, tx_last,
            duplicates>>

walkerVars == <<root_type, tree, walker_pc, iter_next, pending, collected,
                walk_result>>

calcVars == <<calc_input, calc_pc, calc_result>>

cliVars == <<cli_args, stdin, stdin_eof, cli_pc, cli_input, cli_log,
             cli_result>>

nestedVars == <<fs_files, fs_dirs, start_files, dir_stack, dispatched, written,
                nested_pc>>

vars == <<rootExists, file_filters, max_concurrency, walked, pc, permits, task,
          outcome, processing_futures, total_files_processed,
          errors_encountered, okIncs, errIncs, result, pathVars, stratVars,
          linkVars, dbVars, walkerVars, calcVars, cliVars,
                 nestedVars>>

\* What the steps of one component leave alone of the other components.
pathFrame == <<stratVars, linkVars, dbVars, walkerVars, calcVars, cliVars,
                 nestedVars>>
stratFrame == <<pathVars, linkVars, dbVars, walkerVars, calcVars, cliVars,
                 nestedVars>>
linkFrame == <<pathVars, stratVars, dbVars, walkerVars, calcVars, cliVars,
                 nestedVars>>
calcFrame == <<pathVars, stratVars, linkVars, dbVars, walkerVars, cliVars,
               nestedVars>>
cliFrame == <<pathVars, stratVars, linkVars, dbVars, walkerVars, calcVars,
              nestedVars>>
nestedFrame == <<stratVars, linkVars, dbVars, walkerVars, calcVars, cliVars>>

\* What no step of the dispatch loop, of a task or of the join loop changes:
\* the job parameters, and the variables of the path computation and of the
\* single process_file call.
paramVars == <<rootExists, file_filters, max_concurrency, pathVars, stratVars,
               linkVars, dbVars, walkerVars, calcVars, cliVars,
                 nestedVars>>

engineVars == <<rootExists, file_filters, max_concurrency, walked, pc, permits,
                task, outcome, processing_futures, total_files_processed,
                errors_encountered, okIncs, errIncs, result>>

NoResult == [returned |-> FALSE, total_files_processed |-> 0, errors_encountered |-> 0]

(* ---- pure helpers ---- *)

is_file_Any(item) == TRUE

\* entry_path.is_file()
is_file(item) == item.kind = "file"

IncludeSkips_KeepsExtensionless(filters, item) ==
    /\ filters.include_extensions.some
    /\ item.ext # NoExt
    /\ item.ext \notin filters.include_extensions.set

\* The include filter of lines 177-188: TRUE when the entry is skipped.
IncludeSkips(filters, item) ==
    /\ filters.include_extensions.some
    /\ IF item.ext # NoExt
         THEN item.ext \notin filters.include_extensions.set
         ELSE TRUE

ExcludeSkips_OnlyWithoutInclude(filters, item) ==
    /\ ~filters.include_extensions.some
    /\ filters.exclude_extensions.some
    /\ item.ext # NoExt
    /\ item.ext \in filters.exclude_extensions.set

\* The exclude filter of lines 189-196: TRUE when the entry is skipped.
ExcludeSkips(filters, item) ==
    /\ filters.exclude_extensions.some
    /\ item.ext # NoExt
    /\ item.ext \in filters.exclude_extensions.set

\* An Ok entry that passes is_file and both filters.
Admitted(filters, item) ==
    /\ item.kind # "err"
    /\ is_file(item)
    /\ ~IncludeSkips(filters, item)
    /\ ~ExcludeSkips(filters, item)

RelativePathOk_Unchecked(item) == TRUE

\* Lines 200-203: entry_path.strip_prefix(&input_path) is Ok(rel_path).
RelativePathOk(item) == item.relOk

AfterProcessFile_RetryOnErr(res) == IF res = "err" THEN "running" ELSE "exiting"

\* Lines 227-236: whatever process_file returned, the task counts it and
\* reaches the end of its block; nothing calls process_file again.
AfterProcessFile(res) == "exiting"

\* Semaphore::new(max_concurrent_io_tasks)
SemaphoreNew == max_concurrent_io_tasks

AcquireReady_NoWait(p) == TRUE

\* acquire_owned().await completes only when a permit is available.
AcquireReady(p) == p > 0

DropPermit_Leak(p) == p

\* Dropping the OwnedSemaphorePermit returns it to the semaphore.
DropPermit(p) == p + 1

FetchAdd_Lost(c) == c

\* errors_encountered.fetch_add(1) / total_files_processed.fetch_add(1)
FetchAdd(c) == c + 1

OnTraversalError_NoCount(e) == e

\* What the walk arm does to errors_encountered on Err(e).
OnTraversalError(e) == FetchAdd(e)

OnJoinError_NoCount(e) == e

\* What the join loop does to errors_encountered on Err(join_error).
OnJoinError(e) == FetchAdd(e)

AfterTraversalError_Break == "join"

\* Line 166: `continue`, the loop takes the next item of the iterator.
AfterTraversalError == "walk"

AfterJoin_Propagate(st) == IF st = "panicked" THEN "failed" ELSE "join"

\* Lines 241-247: whatever the handle resolved to, the while-let loop goes on.
AfterJoin(st) == "join"

JoinReady_NoWait(st) == TRUE

\* A JoinHandle resolves once its task has completed or panicked.
JoinReady(st) == st \in {"finished", "panicked"}

(* ---- paths (lines 199-217) ---- *)

\* Paths are sequences of components over PathNames, at most MaxDepth long.
PathNames == {"x", "y"}

RECURSIVE PathsOfLen(_)
PathsOfLen(n) ==
    IF n = 0 THEN {<<>>}
    ELSE {Append(q, c) : q \in PathsOfLen(n - 1), c \in PathNames}

Paths == UNION {PathsOfLen(n) : n \in 0..MaxDepth}

RootPaths == UNION {PathsOfLen(n) : n \in 0..MaxRootDepth}

PathEntries == 1..2

\* Path::starts_with: base is a component-wise prefix of path.
StartsWith(path, base) ==
    /\ Len(base) <= Len(path)
    /\ SubSeq(path, 1, Len(base)) = base

StripPrefix_ByLength(path, base) ==
    IF Len(base) <= Len(path)
      THEN [ok |-> TRUE, rel |-> SubSeq(path, Len(base) + 1, Len(path))]
      ELSE [ok |-> FALSE, rel |-> <<>>]

\* Path::strip_prefix: Ok(the remaining components) when base is a prefix of
\* path, Err(StripPrefixError) otherwise.
StripPrefix(path, base) ==
    IF StartsWith(path, base)
      THEN [ok |-> TRUE, rel |-> SubSeq(path, Len(base) + 1, Len(path))]
      ELSE [ok |-> FALSE, rel |-> <<>>]

Join_FileNameOnly(base, rel) ==
    IF rel = <<>> THEN base ELSE Append(base, rel[Len(rel)])

\* PathBuf::join of a relative path: the components of rel follow base.
Join(base, rel) == base \o rel

NoOutputPath == [state |-> "pending", path |-> <<>>]

\* Lines 200-210: Ok(rel_path) => output_base_path.join(rel_path); Err => the
\* entry is counted as an error and gets no output path.
OutputFilePath(entry, input, output) ==
    LET relative_path == StripPrefix(entry, input) IN
      IF relative_path.ok
        THEN [state |-> "ok", path |-> Join(output, relative_path.rel)]
        ELSE [state |-> "err", path |-> <<>>]

\* The path variables of a job whose output paths are not looked at.
PathIdle ==
    /\ input_path = <<>>
    /\ output_base_path = <<>>
    /\ entry_path = [k \in PathEntries |-> <<>>]
    /\ output_file_path = [k \in PathEntries |-> NoOutputPath]

(* ---- file contents and the two strategies' pure parts ---- *)

Newline == "\n"
Bytes == {"a", Newline}

RECURSIVE ContentsOfLen(_)
ContentsOfLen(n) ==
    IF n = 0 THEN {<<>>}
    ELSE {Append(c, b) : c \in ContentsOfLen(n - 1), b \in Bytes}

Contents == UNION {ContentsOfLen(n) : n \in 0..MaxLen}

AbsentFile == [exists |-> FALSE, content |-> <<>>]
ExistingFile(c) == [exists |-> TRUE, content |-> c]

CopyAction == [kind |-> "Copy", num_lines |-> 0]
ExtractAction(n) == [kind |-> "ExtractFirstLines", num_lines |-> n]
ProcessingActions == {CopyAction} \cup {ExtractAction(n) : n \in 0..MaxNumLines}

\* Index of the first newline of c, 0 when there is none.
FirstNewline(c) ==
    IF \E k \in 1..Len(c) : c[k] = Newline
      THEN CHOOSE k \in 1..Len(c) :
              c[k] = Newline /\ \A j \in 1..(k - 1) : c[j] # Newline
      ELSE 0

\* BufReader::lines(): the content split at newlines, without them; what
\* follows the last newline is a line only when it is not empty.
RECURSIVE SplitLines(_)
SplitLines(c) ==
    IF c = <<>> THEN <<>>
    ELSE LET k == FirstNewline(c) IN
           IF k = 0 THEN <<c>>
           ELSE <<SubSeq(c, 1, k - 1)>> \o SplitLines(SubSeq(c, k + 1, Len(c)))

\* output_content_lines.join("\n")
RECURSIVE JoinLines(_)
JoinLines(lines) ==
    IF lines = <<>> THEN <<>>
    ELSE IF Len(lines) = 1 THEN lines[1]
    ELSE lines[1] \o <<Newline>> \o JoinLines(Tail(lines))

\* Line 95: output_content_lines.join("\n") + "\n"
FinalOutput(lines) == JoinLines(lines) \o <<Newline>>

\* Line 76: for _ in 0..self.num_lines
LoopBound(n) == n

OpenOutput_NoTruncate(old) == old

\* Lines 41-49, 105-113: write(true).create(true).truncate(true): the file
\* exists afterwards and is empty.
OpenOutput(old) == <<>>

\* Writing data from offset 0 of an open file: bytes beyond data stay.
WriteAt(file, data) ==
    data \o (IF Len(file) > Len(data)
               THEN SubSeq(file, Len(data) + 1, Len(file))
               ELSE <<>>)

\* The steps of process_file that perform I/O, in the order of the source.
CopySteps == <<"open_input", "parent", "create_dir", "open_output", "copy">>
ExtractSteps == <<"open_input", "read", "parent", "create_dir", "open_output",
                  "write", "flush">>

StepsOf(action) == IF action.kind = "Copy" THEN CopySteps ELSE ExtractSteps

IoSteps == {"open_input", "read", "create_dir", "open_output", "copy", "write",
            "flush"}

\* Where process_file is after `step` went well: "returned" after the last.
AfterStep(action, step) ==
    LET steps == StepsOf(action)
        k == CHOOSE j \in 1..Len(steps) : steps[j] = step
    IN IF k = Len(steps) THEN "returned" ELSE steps[k + 1]

IoError_OpenIgnored(step) ==
    IF step = "open_input" THEN "continue" ELSE "return_err"

IoError_FlushIgnored(step) == IF step = "flush" THEN "continue" ELSE "return_err"

\* Every I/O call of both strategies ends in `.map_err(..)?` (or returns
\* Err from the read loop, line 81): an error makes process_file return Err.
IoError(step) == "return_err"

\* The strategy variables of a job whose process_file calls are not looked at.
StratIdle ==
    /\ processing_action = CopyAction
    /\ in_content = <<>>
    /\ out_before = AbsentFile
    /\ out_file = AbsentFile
    /\ out_parent_exists = FALSE
    /\ output_has_parent = TRUE
    /\ sPc = "idle"
    /\ sResult = "none"
    /\ output_content_lines = <<>>
    /\ failedStep = "none"

(* ---- WalkDir and symbolic links ---- *)

\* An entry of the root directory: a regular file, a directory holding one
\* regular file, or a symbolic link to a file or to such a directory that
\* lies outside the root.
EntryTypes == {"file", "dir", "link_to_file", "link_to_dir"}

\* Line 160: WalkDir::new(&input_path) with no follow_links(true): links
\* below the root are yielded and not followed.
follow_links == FALSE

\* The iterator descends into what it sees as a directory.
Descends(type) == type = "dir" \/ (follow_links /\ type = "link_to_dir")

\* Line 172: Path::is_file() resolves symbolic links.
PathIsFile(type) == type \in {"file", "link_to_file"}

LinkIdle ==
    /\ dir_entries = <<>>
    /\ walk_at = [entry |-> 1, below |-> FALSE]
    /\ files_seen = {}

(* ---- DatabaseManager: the table and its statements ---- *)

\* Paths of FileMetadata entries: three that are valid Unicode and two file
\* names that are not (a lone byte 0x80, a lone byte 0x81).
DbPaths == {"a", "b", "c", "x80", "x81"}

\* Line 68: entry.path.to_string_lossy(): every invalid byte sequence
\* becomes U+FFFD.
to_string_lossy(path) == IF path \in {"x80", "x81"} THEN "U+FFFD" ELSE path

\* Checksums; the checksum stands for all the value columns of an entry.
Checksums == {"c1", "c2"}

\* Byte order of the texts (SQLite's BINARY collation).
TextRank(t) ==
    CASE t \in {"a", "c1"} -> 1
      [] t \in {"b", "c2"} -> 2
      [] t = "c" -> 3
      [] OTHER -> 4

\* Lines 62-74: INSERT OR REPLACE with `path` UNIQUE (line 38): the row that
\* has the same path is deleted, the new row is inserted.
InsertOrReplace(rows, entry) ==
    {r \in rows : r.path # to_string_lossy(entry.path)}
      \cup {[path |-> to_string_lossy(entry.path), checksum |-> entry.checksum]}

DropTransaction_Commit(committed, working) == working

\* Lines 56, 64, 74, 78: `?` leaves the function with `tx` not committed;
\* dropping a rusqlite Transaction rolls it back.
DropTransaction(committed, working) == committed

Having_AtLeastOne(count) == count >= 1

\* Line 92: HAVING COUNT(*) > 1
Having(count) == count > 1

\* Lines 88-93: the checksums of the groups that pass HAVING.
DuplicateChecksums(rows) ==
    {c \in {r.checksum : r \in rows} :
        Having(Cardinality({r \in rows : r.checksum = c}))}

\* Line 94: ORDER BY f.checksum, f.path
RowLeq(r, o) ==
    \/ TextRank(r.checksum) < TextRank(o.checksum)
    \/ /\ r.checksum = o.checksum
       /\ TextRank(r.path) <= TextRank(o.path)

RECURSIVE OrderBy(_)
OrderBy(rows) ==
    IF rows = {} THEN <<>>
    ELSE LET first == CHOOSE r \in rows : \A o \in rows : RowLeq(r, o)
         IN <<first>> \o OrderBy(rows \ {first})

\* Lines 85-112: the rows joined with the duplicate checksums, in order.
SelectDuplicates(rows) ==
    OrderBy({r \in rows : r.checksum \in DuplicateChecksums(rows)})

NoInsert == "none"

DbIdle ==
    /\ files = {}
    /\ tx_files = {}
    /\ tx_count = 0
    /\ db_pc = "idle"
    /\ db_result = "none"
    /\ last_insert = [p \in DbPaths |-> NoInsert]
    /\ tx_last = [p \in DbPaths |-> NoInsert]
    /\ duplicates = [ok |-> FALSE, rows |-> <<>>]

(* ---- walk_directory_parallel: the tree and its predicates ---- *)

\* The places below the root, in the order WalkDir visits them, each with
\* its parent (0 is the root): the tree of the test at lines 120-128 (an
\* entry, an entry in a sub-directory, one in a sub-sub-directory) with one
\* more entry in the sub-directory and in the root.
TreeParent == <<0, 1, 2, 1, 0>>
Slots == 1..Len(TreeParent)

\* What can lie at a place: nothing, a regular file, a directory, a
\* directory that cannot be read, a symbolic link to a regular file.
SlotTypes == {"none", "file", "dir", "locked", "link"}

RootExists_Always(type) == TRUE

\* Line 50: root_path.exists()
RootExists(type) == type # "missing"

Readable_EvenLocked(type) == type \in {"dir", "locked"}

\* WalkDir lists the entries of a directory it can open.
Readable(type) == type = "dir"

TypeOf(k) == IF k = 0 THEN root_type ELSE tree[k]

\* The iterator reaches slot k: something is there and every directory
\* above it could be read.
RECURSIVE Reached(_)
Reached(k) ==
    IF k = 0 THEN TRUE
    ELSE /\ tree[k] # "none"
         /\ Readable(TypeOf(TreeParent[k]))
         /\ Reached(TreeParent[k])

FileTypeIsFile_NotDir(type) == type \notin {"dir", "locked"}

\* Line 72: entry.file_type().is_file(), with links not followed
\* (WalkDir::new at line 65 sets no follow_links).
FileTypeIsFile(type) == type = "file"

\* What the iterator yields at slot k: Ok(entry) for what it reaches, and
\* Err for a directory (or a missing root) it cannot open.
ItemsAt(k) ==
    IF ~Reached(k) THEN {}
    ELSE IF TypeOf(k) = "missing" THEN {[slot |-> k, err |-> TRUE]}
    ELSE IF TypeOf(k) = "locked"
      THEN {[slot |-> k, err |-> FALSE], [slot |-> k, err |-> TRUE]}
    ELSE {[slot |-> k, err |-> FALSE]}

NoWalkResult == [state |-> "none", paths |-> <<>>]

WalkerIdle ==
    /\ root_type = "missing"
    /\ tree = [k \in Slots |-> "none"]
    /\ walker_pc = "idle"
    /\ iter_next = 0
    /\ pending = {}
    /\ collected = <<>>
    /\ walk_result = NoWalkResult

(* ---- RustCalc: tokenize and the recursive-descent parser ---- *)

\* The characters of the inputs: digits, the operators, parentheses, blank.
\* No input holds a '.', so the has_dot branch of lines 43-50 is left out.
Digits == {"0", "5"}
CalcChars == Digits \cup {"+", "-", "*", "/", "(", ")", " "}

\* Tokens (lines 10-18); val is the value of a Number.
Token(type, val) == [type |-> type, val |-> val]

\* Line 56: num_str.parse::<f64>() of a run of digits.
RECURSIVE ParseNumber(_)
ParseNumber(digits) ==
    IF digits = <<>> THEN 0
    ELSE 10 * ParseNumber(SubSeq(digits, 1, Len(digits) - 1))
           + (IF digits[Len(digits)] = "5" THEN 5 ELSE 0)

\* Lines 42-55: the index after the run of digits that starts at i.
RECURSIVE NumberEnd(_, _)
NumberEnd(input, i) ==
    IF i <= Len(input) /\ input[i] \in Digits THEN NumberEnd(input, i + 1) ELSE i

\* Lines 37-100: the tokens of input from index i on; an unrecognized
\* character ends them with an Error token.
RECURSIVE TokensFrom(_, _)
TokensFrom(input, i) ==
    IF i > Len(input) THEN <<>>
    ELSE LET c == input[i] IN
      CASE c \in Digits ->
             <<Token("Number",
                     ParseNumber(SubSeq(input, i, NumberEnd(input, i) - 1)))>>
               \o TokensFrom(input, NumberEnd(input, i))
        [] c = "+" -> <<Token("Plus", 0)>> \o TokensFrom(input, i + 1)
        [] c = "-" -> <<Token("Minus", 0)>> \o TokensFrom(input, i + 1)
        [] c = "*" -> <<Token("Star", 0)>> \o TokensFrom(input, i + 1)
        [] c = "/" -> <<Token("Slash", 0)>> \o TokensFrom(input, i + 1)
        [] c = "(" -> <<Token("LParen", 0)>> \o TokensFrom(input, i + 1)
        [] c = ")" -> <<Token("RParen", 0)>> \o TokensFrom(input, i + 1)
        [] c = " " -> TokensFrom(input, i + 1)
        [] OTHER -> <<Token("Error", 0)>>

\* f64 values of the model: the exact fraction n/d with d > 0; d = 0 is an
\* infinite value.  Exact for the short integer expressions of the model.
Value(n, d) == IF d < 0 THEN [n |-> 0 - n, d |-> 0 - d] ELSE [n |-> n, d |-> d]

\* Results of the parse functions: Ok(val) with the parser at pos, or Err.
ParseOk(val, pos) == [ok |-> TRUE, val |-> val, pos |-> pos, kind |-> "none"]
ParseErr(kind) == [ok |-> FALSE, val |-> Value(0, 1), pos |-> 0, kind |-> kind]

\* Line 159: if right == 0.0
DivisorIsZero(right) == right.n = 0 /\ right.d # 0

RECURSIVE parse_expression(_, _), ExpressionLoop(_, _), parse_term(_, _),
          TermLoop(_, _), parse_factor(_, _)

\* Lines 174-208; pos is the 1-based index of the token peek() returns.
parse_factor(tokens, pos) ==
    IF pos > Len(tokens) THEN ParseErr("SyntaxError")
    ELSE CASE tokens[pos].type = "Plus" -> parse_factor(tokens, pos + 1)
           [] tokens[pos].type = "Minus" ->
                LET val == parse_factor(tokens, pos + 1) IN
                  IF val.ok
                    THEN ParseOk(Value(0 - val.val.n, val.val.d), val.pos)
                    ELSE val
           [] tokens[pos].type = "LParen" ->
                LET expr == parse_expression(tokens, pos + 1) IN
                  IF ~expr.ok THEN expr
                  ELSE IF /\ expr.pos <= Len(tokens)
                          /\ tokens[expr.pos].type = "RParen"
                         THEN ParseOk(expr.val, expr.pos + 1)
                         ELSE ParseErr("SyntaxError")
           [] tokens[pos].type = "Number" ->
                ParseOk(Value(tokens[pos].val, 1), pos + 1)
           [] OTHER -> ParseErr("SyntaxError")

\* Lines 149-171: the loop of parse_term, with `left` parsed so far.
TermLoop(tokens, left) ==
    IF left.pos > Len(tokens) THEN left
    ELSE CASE tokens[left.pos].type = "Star" ->
                LET right == parse_factor(tokens, left.pos + 1) IN
                  IF ~right.ok THEN right
                  ELSE TermLoop(tokens,
                                ParseOk(Value(left.val.n * right.val.n,
                                              left.val.d * right.val.d),
                                        right.pos))
           [] tokens[left.pos].type = "Slash" ->
                LET right == parse_factor(tokens, left.pos + 1) IN
                  IF ~right.ok THEN right
                  ELSE IF DivisorIsZero(right.val)
                    THEN ParseErr("DivisionByZero")
                    ELSE TermLoop(tokens,
                                  ParseOk(Value(left.val.n * right.val.d,
                                                left.val.d * right.val.n),
                                          right.pos))
           [] OTHER -> left

\* Lines 146-172
parse_term(tokens, pos) ==
    LET left == parse_factor(tokens, pos) IN
      IF left.ok THEN TermLoop(tokens, left) ELSE left

\* Lines 127-143: the loop of parse_expression.
ExpressionLoop(tokens, left) ==
    IF left.pos > Len(tokens) THEN left
    ELSE CASE tokens[left.pos].type = "Plus" ->
                LET right == parse_term(tokens, left.pos + 1) IN
                  IF ~right.ok THEN right
                  ELSE ExpressionLoop(tokens,
                         ParseOk(Value(left.val.n * right.val.d
                                         + right.val.n * left.val.d,
                                       left.val.d * right.val.d),
                                 right.pos))
           [] tokens[left.pos].type = "Minus" ->
                LET right == parse_term(tokens, left.pos + 1) IN
                  IF ~right.ok THEN right
                  ELSE ExpressionLoop(tokens,
                         ParseOk(Value(left.val.n * right.val.d
                                         - right.val.n * left.val.d,
                                       left.val.d * right.val.d),
                                 right.pos))
           [] OTHER -> left

\* Lines 124-144
parse_expression(tokens, pos) ==
    LET left == parse_term(tokens, pos) IN
      IF left.ok THEN ExpressionLoop(tokens, left) ELSE left

\* Lines 20-31
evaluate(input) ==
    LET tokens == TokensFrom(input, 1) IN
      IF \E k \in 1..Len(tokens) : tokens[k].type = "Error"
        THEN ParseErr("InvalidCharacter")
        ELSE LET parsed == parse_expression(tokens, 1) IN
               IF ~parsed.ok THEN parsed
               ELSE IF parsed.pos <= Len(tokens) THEN ParseErr("SyntaxError")
               ELSE parsed

CalcIdle ==
    /\ calc_input = <<>>
    /\ calc_pc = "idle"
    /\ calc_result = ParseErr("none")

(* ---- RustCalc: the command line (cli.rs) ---- *)

\* Line 38: what str::trim removes at both ends.
Whitespace == {" ", Newline}

RECURSIVE trim_start(_)
trim_start(s) ==
    IF s # <<>> /\ s[1] \in Whitespace THEN trim_start(Tail(s)) ELSE s

RECURSIVE trim_end(_)
trim_end(s) ==
    IF s # <<>> /\ s[Len(s)] \in Whitespace
      THEN trim_end(SubSeq(s, 1, Len(s) - 1))
      ELSE s

\* Line 38: input.trim()
trim(s) == trim_end(trim_start(s))

\* The upper-case letters of the model's lines, folded as
\* eq_ignore_ascii_case folds them.
to_ascii_lowercase(c) ==
    CASE c = "E" -> "e"
      [] c = "X" -> "x"
      [] c = "I" -> "i"
      [] c = "T" -> "t"
      [] OTHER -> c

\* Line 43: a.eq_ignore_ascii_case(b)
eq_ignore_ascii_case(a, b) ==
    /\ Len(a) = Len(b)
    /\ \A i \in 1..Len(a) : to_ascii_lowercase(a[i]) = to_ascii_lowercase(b[i])

\* Line 43: the two words that end the session.
ExitWord == <<"e", "x", "i", "t">>
QuitWord == <<"q", "u", "i", "t">>

\* Line 43
IsExitOrQuit(line) ==
    eq_ignore_ascii_case(line, ExitWord) \/ eq_ignore_ascii_case(line, QuitWord)

\* The lines standard input may hold, without their line terminator: two
\* expressions (one of them failing), a word that is no expression, a blank
\* line, and the words that end the session, one of them padded and in
\* upper case.
CliLines ==
    { <<"5", "+", "5">>, <<"5", "/", "0">>,
      <<"i", "n", "v", "a", "l", "i", "d">>, <<>>,
      ExitWord, QuitWord, <<" ", "E", "X", "I", "T">> }

\* Lines 17 and 47: evaluate, tabulated over the expressions and the trimmed
\* lines of the model.
EvaluateOf == [line \in {trim(l) : l \in CliLines} |-> evaluate(line)]

\* Lines 8-12: --expression is absent or one of two expressions;
\* --interactive is set or not.
NoExpression == [some |-> FALSE, expr |-> <<>>]
SomeExpression(expr) == [some |-> TRUE, expr |-> expr]
ArgsChoices ==
    [expression : {NoExpression, SomeExpression(<<"5", "+", "5">>),
                   SomeExpression(<<"5", "/", "0">>)},
     interactive : BOOLEAN]

\* Lines 18 and 48: println! of a value, with the text in front of it.
Println(prefix, val) ==
    [stream |-> "stdout", prefix |-> prefix, val |-> val, kind |-> "none"]

\* Line 49: eprintln! of the message of an error of the given kind.
Eprintln(kind) ==
    [stream |-> "stderr", prefix |-> "", val |-> Value(0, 1), kind |-> kind]

\* What run returns: Ok(()) or Err(message); Pending before it returns.
RunOk == [ok |-> TRUE, err |-> "none"]
RunErr(message) == [ok |-> FALSE, err |-> message]
Pending == [ok |-> FALSE, err |-> "pending"]

\* Lines 47-51: after the match arm has reported, the loop goes on.
AfterReport_StopOnError(parsed) == IF parsed.ok THEN "prompt" ELSE "returned"
AfterReport(parsed) == "prompt"

CliIdle ==
    /\ cli_args = [expression |-> NoExpression, interactive |-> FALSE]
    /\ stdin = <<>>
    /\ stdin_eof = FALSE
    /\ cli_pc = "idle"
    /\ cli_input = <<>>
    /\ cli_log = <<>>
    /\ cli_result = Pending

(* ---- the walk over a tree the tasks write into (lines 157-237) ---- *)

\* The input root, and the two output roots of the model: a directory inside
\* the input root and one outside of it.
InputRoot == <<"x">>
OutputRoots == {<<"x", "y">>, <<"y">>}

\* The entries of directory dir, given the files and directories that exist.
Children(dir, existing) ==
    {p \in existing : Len(p) = Len(dir) + 1 /\ StartsWith(p, dir)}

\* create_dir_all(path): path and every directory above it.
AllDirs(path) == {SubSeq(path, 1, k) : k \in 1..Len(path)}

\* Path::parent of a path with at least one component.
ParentOf(path) == SubSeq(path, 1, Len(path) - 1)

\* WalkDir opens a directory with read_dir when it yields the directory's
\* entry: `snapshot` holds the entries that exist at that moment, `seen`
\* those yielded so far.
OpenDir(dir, existing) ==
    [path |-> dir, snapshot |-> Children(dir, existing), seen |-> {}]

NestedIdle ==
    /\ fs_files = {}
    /\ fs_dirs = {}
    /\ start_files = {}
    /\ dir_stack = <<>>
    /\ dispatched = {}
    /\ written = {}
    /\ nested_pc = "idle"

(* ---- initial state ---- *)

Init ==
    /\ PathIdle
    /\ StratIdle
    /\ LinkIdle
    /\ DbIdle
    /\ WalkerIdle
    /\ CalcIdle
    /\ CliIdle
    /\ NestedIdle
    /\ rootExists \in BOOLEAN
    /\ \E job \in JobChoices :
         /\ file_filters = job.file_filters
         /\ max_concurrency = job.max_concurrency
    /\ walked = <<>>
    /\ pc = "walk"
    /\ permits = SemaphoreNew
    /\ task = [i \in TaskIds |-> "none"]
    /\ outcome = [i \in TaskIds |-> "none"]
    /\ processing_futures = <<>>
    /\ total_files_processed = 0
    /\ errors_encountered = 0
    /\ okIncs = [i \in TaskIds |-> 0]
    /\ errIncs = [i \in TaskIds |-> 0]
    /\ result = NoResult

(* ---- the walker ---- *)

\* Items WalkDir may yield next.  A missing root yields exactly one Err item.
NextItems ==
    IF rootExists
      THEN IF Len(walked) < MaxEntries THEN WalkItems ELSE {}
      ELSE IF walked = <<>> THEN {ErrItem} ELSE {}

\* The iterator may end where a root exists; a missing root ends after its Err.
WalkMayEnd == rootExists \/ walked # <<>>

(* ---- process_data: the dispatch loop ---- *)

\* Lines 161-168: Err(e) => count one error, continue.
WalkError ==
    /\ pc = "walk"
    /\ \E item \in NextItems :
         /\ item.kind = "err"
         /\ walked' = Append(walked, item)
    /\ errors_encountered' = OnTraversalError(errors_encountered)
    /\ pc' = AfterTraversalError
    /\ UNCHANGED <<paramVars, permits, task, outcome, processing_futures,
                   total_files_processed, okIncs, errIncs, result>>

\* Lines 172-196: not a file, or rejected by a filter => continue.
WalkSkip ==
    /\ pc = "walk"
    /\ \E item \in NextItems :
         /\ item.kind # "err"
         /\ ~Admitted(file_filters, item)
         /\ walked' = Append(walked, item)
    /\ UNCHANGED <<paramVars, pc, permits, task, outcome, processing_futures,
                   total_files_processed, errors_encountered, okIncs, errIncs,
                   result>>

\* Lines 200-210: strip_prefix fails => count one error, continue.
WalkPathError ==
    /\ pc = "walk"
    /\ \E item \in NextItems :
         /\ Admitted(file_filters, item)
         /\ ~RelativePathOk(item)
         /\ walked' = Append(walked, item)
    /\ errors_encountered' = FetchAdd(errors_encountered)
    /\ errIncs' = [errIncs EXCEPT ![Len(walked')] = @ + (errors_encountered' - errors_encountered)]
    /\ UNCHANGED <<paramVars, pc, permits, task, outcome, processing_futures,
                   total_files_processed, okIncs, result>>

\* Lines 212-221: the entry is admitted; the loop reaches acquire_owned().await.
WalkAdmit ==
    /\ pc = "walk"
    /\ \E item \in NextItems :
         /\ Admitted(file_filters, item)
         /\ RelativePathOk(item)
         /\ walked' = Append(walked, item)
    /\ pc' = "acquire"
    /\ UNCHANGED <<paramVars, permits, task, outcome, processing_futures,
                   total_files_processed, errors_encountered, okIncs, errIncs,
                   result>>

\* Lines 221-237: the permit is granted, the task is spawned and its handle
\* pushed; the loop goes back to the iterator.
AcquireAndSpawn ==
    /\ pc = "acquire"
    /\ AcquireReady(permits)
    /\ permits' = permits - 1
    /\ task' = [task EXCEPT ![Len(walked)] = "running"]
    /\ processing_futures' = Append(processing_futures, Len(walked))
    /\ pc' = "walk"
    /\ UNCHANGED <<paramVars, walked, outcome, total_files_processed,
                   errors_encountered, okIncs, errIncs, result>>

\* Line 160/238: the iterator is exhausted; the loop ends.
WalkEnd ==
    /\ pc = "walk"
    /\ WalkMayEnd
    /\ pc' = "join"
    /\ UNCHANGED <<paramVars, walked, permits, task, outcome,
                   processing_futures, total_files_processed,
                   errors_encountered, okIncs, errIncs, result>>

(* ---- the spawned task (lines 225-236) ---- *)

\* process_file returned Ok: total_files_processed.fetch_add(1).
TaskOk(i) ==
    /\ task[i] = "running"
    /\ outcome' = [outcome EXCEPT ![i] = "ok"]
    /\ total_files_processed' = FetchAdd(total_files_processed)
    /\ okIncs' = [okIncs EXCEPT ![i] = @ + (total_files_processed' - total_files_processed)]
    /\ task' = [task EXCEPT ![i] = AfterProcessFile("ok")]
    /\ UNCHANGED <<paramVars, walked, pc, permits, processing_futures,
                   errors_encountered, errIncs, result>>

\* process_file returned Err: errors_encountered.fetch_add(1).
TaskErr(i) ==
    /\ task[i] = "running"
    /\ outcome' = [outcome EXCEPT ![i] = "err"]
    /\ errors_encountered' = FetchAdd(errors_encountered)
    /\ errIncs' = [errIncs EXCEPT ![i] = @ + (errors_encountered' - errors_encountered)]
    /\ task' = [task EXCEPT ![i] = AfterProcessFile("err")]
    /\ UNCHANGED <<paramVars, walked, pc, permits, processing_futures,
                   total_files_processed, okIncs, result>>

\* process_file panicked: unwinding drops _permit_guard and the handle
\* resolves to Err(JoinError); no counter is touched by the task.
TaskPanic(i) ==
    /\ task[i] = "running"
    /\ outcome' = [outcome EXCEPT ![i] = "panic"]
    /\ permits' = DropPermit(permits)
    /\ task' = [task EXCEPT ![i] = "panicked"]
    /\ UNCHANGED <<paramVars, walked, pc, processing_futures,
                   total_files_processed, errors_encountered, okIncs, errIncs,
                   result>>

\* End of the async block: _permit_guard is dropped and the handle resolves
\* to Ok(()).
TaskExit(i) ==
    /\ task[i] = "exiting"
    /\ permits' = DropPermit(permits)
    /\ task' = [task EXCEPT ![i] = "finished"]
    /\ UNCHANGED <<paramVars, walked, pc, outcome, processing_futures,
                   total_files_processed, errors_encountered, okIncs, errIncs,
                   result>>

Task(i) == TaskOk(i) \/ TaskErr(i) \/ TaskPanic(i) \/ TaskExit(i)

(* ---- process_data: the join loop and the return ---- *)

\* Lines 241-247: the next handle (FuturesOrdered: push order) has resolved.
JoinNext ==
    /\ pc = "join"
    /\ processing_futures # <<>>
    /\ LET i == Head(processing_futures) IN
         /\ JoinReady(task[i])
         /\ errors_encountered' = IF task[i] = "panicked"
                                    THEN OnJoinError(errors_encountered)
                                    ELSE errors_encountered
         /\ errIncs' = [errIncs EXCEPT ![i] = @ + (errors_encountered' - errors_encountered)]
         /\ pc' = AfterJoin(task[i])
    /\ processing_futures' = Tail(processing_futures)
    /\ UNCHANGED <<paramVars, walked, permits, task, outcome,
                   total_files_processed, okIncs, result>>

\* Lines 249-258: every handle was awaited; load both counters and return.
Return ==
    /\ pc = "join"
    /\ processing_futures = <<>>
    /\ result' = [returned |-> TRUE,
                  total_files_processed |-> total_files_processed,
                  errors_encountered |-> errors_encountered]
    /\ pc' = "done"
    /\ UNCHANGED <<paramVars, walked, permits, task, outcome,
                   processing_futures, total_files_processed,
                   errors_encountered, okIncs, errIncs>>

Orchestrator ==
    \/ WalkError
    \/ WalkSkip
    \/ WalkPathError
    \/ WalkAdmit
    \/ AcquireAndSpawn
    \/ WalkEnd
    \/ JoinNext
    \/ Return

Next ==
    \/ Orchestrator
    \/ \E i \in TaskIds : Task(i)

Spec == Init /\ [][Next]_vars

\* The runtime keeps running whatever can run (the orchestrator or a spawned
\* task), and every process_file call ends.
FairSpec == Spec /\ WF_vars(Next)

(* ---- the output path of an entry, on its own ---- *)

\* The engine variables of a job that has not taken a step.
EngineIdle ==
    /\ rootExists = TRUE
    /\ file_filters = [include_extensions |-> NoneFilter,
                       exclude_extensions |-> NoneFilter]
    /\ max_concurrency = NoneConcurrency
    /\ walked = <<>>
    /\ pc = "walk"
    /\ permits = SemaphoreNew
    /\ task = [i \in TaskIds |-> "none"]
    /\ outcome = [i \in TaskIds |-> "none"]
    /\ processing_futures = <<>>
    /\ total_files_processed = 0
    /\ errors_encountered = 0
    /\ okIncs = [i \in TaskIds |-> 0]
    /\ errIncs = [i \in TaskIds |-> 0]
    /\ result = NoResult

\* Any roots, and any two entry paths: WalkDir yields paths below input_path;
\* the others exercise the Err arm of strip_prefix.
PathInit ==
    /\ EngineIdle
    /\ StratIdle
    /\ LinkIdle
    /\ DbIdle
    /\ WalkerIdle
    /\ CalcIdle
    /\ CliIdle
    /\ NestedIdle
    /\ input_path \in RootPaths
    /\ output_base_path \in RootPaths
    /\ entry_path \in [PathEntries -> Paths]
    /\ output_file_path = [k \in PathEntries |-> NoOutputPath]

\* Lines 199-217 for entry k.
ComputeOutputPath(k) ==
    /\ output_file_path[k].state = "pending"
    /\ output_file_path' =
          [output_file_path EXCEPT
              ![k] = OutputFilePath(entry_path[k], input_path, output_base_path)]
    /\ UNCHANGED <<engineVars, pathFrame, input_path,
                   output_base_path, entry_path>>

PathNext == \E k \in PathEntries : ComputeOutputPath(k)

PathSpec == PathInit /\ [][PathNext]_vars

(* ---- one process_file call and the match on its result ---- *)

\* The engine variables the call and the match leave alone.
engineFrame == <<rootExists, file_filters, max_concurrency, walked, pc, permits,
                 task, outcome, processing_futures, okIncs, errIncs, result>>

\* Any action, any input content, any earlier state of the output path; the
\* output's directories exist whenever the output file does.
StratInit ==
    /\ EngineIdle
    /\ PathIdle
    /\ LinkIdle
    /\ DbIdle
    /\ WalkerIdle
    /\ CalcIdle
    /\ CliIdle
    /\ NestedIdle
    /\ processing_action \in ProcessingActions
    /\ in_content \in Contents
    /\ out_before \in {AbsentFile} \cup {ExistingFile(c) : c \in Contents}
    /\ out_file = out_before
    /\ out_parent_exists \in (IF out_before.exists THEN {TRUE} ELSE BOOLEAN)
    /\ output_has_parent \in BOOLEAN
    /\ sPc = "open_input"
    /\ sResult = "none"
    /\ output_content_lines = <<>>
    /\ failedStep = "none"

\* process_file goes on after `step`, or returns Ok(()) after the last step.
Proceed(step) ==
    /\ sPc' = AfterStep(processing_action, step)
    /\ sResult' = IF sPc' = "returned" THEN "ok" ELSE sResult

\* Lines 29-31, 68-70: File::open(input_path) succeeds.
OpenInput ==
    /\ sPc = "open_input"
    /\ Proceed("open_input")
    /\ UNCHANGED <<engineVars, stratFrame, processing_action, in_content,
                   out_before, out_file, out_parent_exists, output_has_parent,
                   output_content_lines, failedStep>>

\* Lines 76-86: one iteration that gets Ok(Some(line)) and pushes it.
ReadLine ==
    /\ sPc = "read"
    /\ Len(output_content_lines) < LoopBound(processing_action.num_lines)
    /\ Len(output_content_lines) < Len(SplitLines(in_content))
    /\ output_content_lines' =
          Append(output_content_lines,
                 SplitLines(in_content)[Len(output_content_lines) + 1])
    /\ UNCHANGED <<engineVars, stratFrame, processing_action, in_content,
                   out_before, out_file, out_parent_exists, output_has_parent,
                   sPc, sResult, failedStep>>

\* Lines 76-86: the loop ends, by its bound or by `break` at the end of the
\* file.
ReadEnd ==
    /\ sPc = "read"
    /\ \/ Len(output_content_lines) >= LoopBound(processing_action.num_lines)
       \/ Len(output_content_lines) >= Len(SplitLines(in_content))
    /\ Proceed("read")
    /\ UNCHANGED <<engineVars, stratFrame, processing_action, in_content,
                   out_before, out_file, out_parent_exists, output_has_parent,
                   output_content_lines, failedStep>>

\* Lines 34-36, 98-100: output_path.parent() is Some, or PathError.
Parent ==
    /\ sPc = "parent"
    /\ IF output_has_parent
         THEN Proceed("parent")
         ELSE sPc' = "returned" /\ sResult' = "err"
    /\ UNCHANGED <<engineVars, stratFrame, processing_action, in_content,
                   out_before, out_file, out_parent_exists, output_has_parent,
                   output_content_lines, failedStep>>

\* Lines 37-39, 101-103: create_dir_all(parent_dir) succeeds.
CreateDirAll ==
    /\ sPc = "create_dir"
    /\ out_parent_exists' = TRUE
    /\ Proceed("create_dir")
    /\ UNCHANGED <<engineVars, stratFrame, processing_action, in_content,
                   out_before, out_file, output_has_parent,
                   output_content_lines, failedStep>>

\* Lines 41-49, 105-113: the output file is opened, created and truncated.
OpenOutputFile ==
    /\ sPc = "open_output"
    /\ out_parent_exists
    /\ out_file' = ExistingFile(OpenOutput(out_file.content))
    /\ Proceed("open_output")
    /\ UNCHANGED <<engineVars, stratFrame, processing_action, in_content,
                   out_before, out_parent_exists, output_has_parent,
                   output_content_lines, failedStep>>

\* Lines 51-53: io::copy writes every byte of the input to the output.
CopyData ==
    /\ sPc = "copy"
    /\ out_file' = ExistingFile(WriteAt(out_file.content, in_content))
    /\ Proceed("copy")
    /\ UNCHANGED <<engineVars, stratFrame, processing_action, in_content,
                   out_before, out_parent_exists, output_has_parent,
                   output_content_lines, failedStep>>

\* Lines 95, 115-117: write_all(final_output) succeeds.
WriteAll ==
    /\ sPc = "write"
    /\ out_file' = ExistingFile(WriteAt(out_file.content,
                                        FinalOutput(output_content_lines)))
    /\ Proceed("write")
    /\ UNCHANGED <<engineVars, stratFrame, processing_action, in_content,
                   out_before, out_parent_exists, output_has_parent,
                   output_content_lines, failedStep>>

\* Lines 118-120: flush() succeeds.
Flush ==
    /\ sPc = "flush"
    /\ Proceed("flush")
    /\ UNCHANGED <<engineVars, stratFrame, processing_action, in_content,
                   out_before, out_file, out_parent_exists, output_has_parent,
                   output_content_lines, failedStep>>

\* What the failing step wrote: a copy or a write that fails may have
\* written any prefix of its data; the other steps change no file.
PartialWrites(step) ==
    LET data == IF step = "copy" THEN in_content
                ELSE FinalOutput(output_content_lines)
    IN IF step \in {"copy", "write"}
         THEN {ExistingFile(WriteAt(out_file.content, SubSeq(data, 1, k))) :
                 k \in 0..Len(data)}
         ELSE {out_file}

\* The I/O call of the current step fails.
StepFails ==
    /\ sPc \in IoSteps
    /\ failedStep' = sPc
    /\ out_file' \in PartialWrites(sPc)
    /\ IF IoError(sPc) = "return_err"
         THEN sPc' = "returned" /\ sResult' = "err"
         ELSE Proceed(sPc)
    /\ UNCHANGED <<engineVars, stratFrame, processing_action, in_content,
                   out_before, out_parent_exists, output_has_parent,
                   output_content_lines>>

\* Lines 227-235: the task counts what process_file returned.
MatchResult ==
    /\ sPc = "returned"
    /\ sPc' = "counted"
    /\ IF sResult = "ok"
         THEN /\ total_files_processed' = FetchAdd(total_files_processed)
              /\ UNCHANGED errors_encountered
         ELSE /\ errors_encountered' = FetchAdd(errors_encountered)
              /\ UNCHANGED total_files_processed
    /\ UNCHANGED <<engineFrame, stratFrame, processing_action, in_content,
                   out_before, out_file, out_parent_exists, output_has_parent,
                   sResult, output_content_lines, failedStep>>

StratNext ==
    \/ OpenInput
    \/ ReadLine
    \/ ReadEnd
    \/ Parent
    \/ CreateDirAll
    \/ OpenOutputFile
    \/ CopyData
    \/ WriteAll
    \/ Flush
    \/ StepFails
    \/ MatchResult

StratSpec == StratInit /\ [][StratNext]_vars

(* ---- the walk of a root directory with symbolic links ---- *)

LinkInit ==
    /\ EngineIdle
    /\ PathIdle
    /\ StratIdle
    /\ DbIdle
    /\ WalkerIdle
    /\ CalcIdle
    /\ CliIdle
    /\ NestedIdle
    /\ dir_entries \in [1..MaxEntries -> EntryTypes]
    /\ walk_at = [entry |-> 1, below |-> FALSE]
    /\ files_seen = {}

\* Lines 160-174: the iterator yields the next entry of the root directory;
\* the loop body goes on past line 172 when the path is a file.
YieldEntry ==
    /\ walk_at.entry <= MaxEntries
    /\ ~walk_at.below
    /\ LET type == dir_entries[walk_at.entry] IN
         /\ files_seen' = IF PathIsFile(type)
                            THEN files_seen \cup {walk_at}
                            ELSE files_seen
         /\ walk_at' = IF Descends(type)
                         THEN [walk_at EXCEPT !.below = TRUE]
                         ELSE [walk_at EXCEPT !.entry = @ + 1]
    /\ UNCHANGED <<engineVars, linkFrame, dir_entries>>

\* Lines 160-174: the iterator yields the regular file of the directory it
\* descended into.
YieldBelow ==
    /\ walk_at.below
    /\ files_seen' = files_seen \cup {walk_at}
    /\ walk_at' = [entry |-> walk_at.entry + 1, below |-> FALSE]
    /\ UNCHANGED <<engineVars, linkFrame, dir_entries>>

LinkNext == YieldEntry \/ YieldBelow

LinkSpec == LinkInit /\ [][LinkNext]_vars

(* ---- DatabaseManager: insert_file_metadata and get_duplicate_files ---- *)

\* What no database operation touches.
dbFrame == <<engineVars, pathVars, stratVars, linkVars, walkerVars,
             calcVars, cliVars,
                 nestedVars>>

\* DatabaseManager::new on a fresh database file: the table is empty.
DbInit ==
    /\ EngineIdle
    /\ PathIdle
    /\ StratIdle
    /\ LinkIdle
    /\ DbIdle
    /\ WalkerIdle
    /\ CalcIdle
    /\ CliIdle
    /\ NestedIdle

\* Lines 56-64: the transaction begins and the statement is prepared.
BeginTransaction ==
    /\ db_pc = "idle"
    /\ db_pc' = "tx"
    /\ tx_files' = files
    /\ tx_last' = last_insert
    /\ tx_count' = 0
    /\ db_result' = "none"
    /\ UNCHANGED <<dbFrame, files, last_insert, duplicates>>

\* Lines 66-75: one iteration of the loop executes the statement for the
\* next entry of the batch.
ExecuteInsert ==
    /\ db_pc = "tx"
    /\ tx_count < MaxBatch
    /\ \E entry \in [path : DbPaths, checksum : Checksums] :
         /\ tx_files' = InsertOrReplace(tx_files, entry)
         /\ tx_last' = [tx_last EXCEPT ![entry.path] = entry.checksum]
    /\ tx_count' = tx_count + 1
    /\ UNCHANGED <<dbFrame, files, db_pc, db_result, last_insert, duplicates>>

\* Lines 78-79: the batch has ended and commit succeeds.
Commit ==
    /\ db_pc = "tx"
    /\ files' = tx_files
    /\ last_insert' = tx_last
    /\ db_pc' = "idle"
    /\ db_result' = "ok"
    /\ UNCHANGED <<dbFrame, tx_files, tx_count, tx_last, duplicates>>

\* Lines 56-57, 64, 74, 78: beginning, preparing, executing an entry or
\* committing fails: the call returns Err and `tx`, if begun, is dropped.
InsertFails ==
    /\ db_pc \in {"idle", "tx"}
    /\ files' = IF db_pc = "tx" THEN DropTransaction(files, tx_files) ELSE files
    /\ last_insert' = IF db_pc = "tx" THEN DropTransaction(last_insert, tx_last)
                                      ELSE last_insert
    /\ db_pc' = "idle"
    /\ db_result' = "err"
    /\ tx_files' = files'
    /\ tx_last' = last_insert'
    /\ UNCHANGED <<dbFrame, tx_count, duplicates>>

\* Lines 84-113: the query returns the rows, or fails and returns Err.
GetDuplicateFiles ==
    /\ db_pc = "idle"
    /\ duplicates' \in {[ok |-> TRUE, rows |-> SelectDuplicates(files)],
                        [ok |-> FALSE, rows |-> <<>>]}
    /\ UNCHANGED <<dbFrame, files, tx_files, tx_count, db_pc, db_result,
                   last_insert, tx_last>>

DbNext ==
    \/ BeginTransaction
    \/ ExecuteInsert
    \/ Commit
    \/ InsertFails
    \/ GetDuplicateFiles

DbSpec == DbInit /\ [][DbNext]_vars

(* ---- walk_directory_parallel ---- *)

walkerFrame == <<engineVars, pathVars, stratVars, linkVars, dbVars,
                 calcVars, cliVars,
                 nestedVars>>

\* Any root, and below a directory root any tree: something lies at a slot
\* only if its parent is a directory.
WalkerInit ==
    /\ EngineIdle
    /\ PathIdle
    /\ StratIdle
    /\ LinkIdle
    /\ DbIdle
    /\ CalcIdle
    /\ CliIdle
    /\ NestedIdle
    /\ root_type \in {"missing", "file", "dir", "locked"}
    /\ tree \in [Slots -> SlotTypes]
    /\ \A k \in Slots :
          tree[k] # "none" => TypeOf(TreeParent[k]) \in {"dir", "locked"}
    /\ walker_pc = "start"
    /\ iter_next = 0
    /\ pending = {}
    /\ collected = <<>>
    /\ walk_result = NoWalkResult

\* Lines 50-60: a missing root is an error, a file root is the result.
CheckRoot ==
    /\ walker_pc = "start"
    /\ IF ~RootExists(root_type)
         THEN /\ walk_result' = [state |-> "NotFound", paths |-> <<>>]
              /\ walker_pc' = "returned"
         ELSE IF root_type = "file"
           THEN /\ walk_result' = [state |-> "ok", paths |-> <<0>>]
                /\ walker_pc' = "returned"
           ELSE /\ walker_pc' = "walking"
                /\ UNCHANGED walk_result
    /\ UNCHANGED <<walkerFrame, root_type, tree, iter_next, pending, collected>>

\* Lines 65-67: the sequential iterator goes one place further and hands
\* what it yields there to the parallel bridge.
IterNext ==
    /\ walker_pc = "walking"
    /\ iter_next <= Len(TreeParent)
    /\ pending' = pending \cup ItemsAt(iter_next)
    /\ iter_next' = iter_next + 1
    /\ UNCHANGED <<walkerFrame, root_type, tree, walker_pc, collected,
                   walk_result>>

\* Lines 68-87: some worker filters some item: a file's path is kept, any
\* other entry and any error is dropped.
FilterMap ==
    /\ walker_pc = "walking"
    /\ \E item \in pending :
         /\ pending' = pending \ {item}
         /\ collected' = IF ~item.err /\ FileTypeIsFile(TypeOf(item.slot))
                           THEN Append(collected, item.slot)
                           ELSE collected
    /\ UNCHANGED <<walkerFrame, root_type, tree, walker_pc, iter_next,
                   walk_result>>

\* Lines 88-90: every item was filtered; Ok(files).
Collect ==
    /\ walker_pc = "walking"
    /\ iter_next > Len(TreeParent)
    /\ pending = {}
    /\ walk_result' = [state |-> "ok", paths |-> collected]
    /\ walker_pc' = "returned"
    /\ UNCHANGED <<walkerFrame, root_type, tree, iter_next, pending, collected>>

WalkerNext == CheckRoot \/ IterNext \/ FilterMap \/ Collect

WalkerSpec == WalkerInit /\ [][WalkerNext]_vars

(* ---- RustCalc: one call of evaluate ---- *)

CalcInit ==
    /\ EngineIdle
    /\ PathIdle
    /\ StratIdle
    /\ LinkIdle
    /\ DbIdle
    /\ WalkerIdle
    /\ calc_input \in UNION {[1..n -> CalcChars] : n \in 0..MaxInputLen}
    /\ CliIdle
    /\ NestedIdle
    /\ calc_pc = "called"
    /\ calc_result = ParseErr("none")

\* Lines 20-31: evaluate(input) returns.
Evaluate ==
    /\ calc_pc = "called"
    /\ calc_result' = evaluate(calc_input)
    /\ calc_pc' = "returned"
    /\ UNCHANGED <<engineVars, calcFrame, calc_input>>

CalcSpec == CalcInit /\ [][Evaluate]_vars

(* ---- RustCalc: one call of run ---- *)

CliInit ==
    /\ EngineIdle
    /\ PathIdle
    /\ StratIdle
    /\ LinkIdle
    /\ DbIdle
    /\ WalkerIdle
    /\ CalcIdle
    /\ NestedIdle
    /\ cli_args \in ArgsChoices
    /\ stdin = <<>>
    /\ stdin_eof = FALSE
    /\ cli_pc = "start"
    /\ cli_input = <<>>
    /\ cli_log = <<>>
    /\ cli_result = Pending

\* Lines 16-21: the expression of the command line, if one was given.
Expression ==
    /\ cli_pc = "start"
    /\ IF ~cli_args.expression.some
         THEN /\ cli_pc' = "mode"
              /\ UNCHANGED <<cli_log, cli_result>>
         ELSE LET parsed == EvaluateOf[cli_args.expression.expr] IN
                IF parsed.ok
                  THEN /\ cli_log' = Append(cli_log, Println("", parsed.val))
                       /\ cli_pc' = "mode"
                       /\ UNCHANGED cli_result
                  ELSE /\ cli_result' = RunErr(parsed.kind)
                       /\ cli_pc' = "returned"
                       /\ UNCHANGED cli_log
    /\ UNCHANGED <<engineVars, cliFrame, cli_args, stdin, stdin_eof, cli_input>>

\* Lines 23 and 54: without --interactive run returns Ok(()).
Interactive ==
    /\ cli_pc = "mode"
    /\ IF cli_args.interactive
         THEN cli_pc' = "prompt" /\ UNCHANGED cli_result
         ELSE cli_pc' = "returned" /\ cli_result' = RunOk
    /\ UNCHANGED <<engineVars, cliFrame, cli_args, stdin, stdin_eof, cli_input,
                   cli_log>>

\* Lines 28-31: the prompt is printed and flushed.
Prompt ==
    /\ cli_pc = "prompt"
    /\ cli_pc' = "read"
    /\ UNCHANGED <<engineVars, cliFrame, cli_args, stdin, stdin_eof, cli_input,
                   cli_log, cli_result>>

\* Lines 29-31: the flush fails.
FlushFails ==
    /\ cli_pc = "prompt"
    /\ cli_pc' = "returned"
    /\ cli_result' = RunErr("Failed to flush stdout")
    /\ UNCHANGED <<engineVars, cliFrame, cli_args, stdin, stdin_eof, cli_input,
                   cli_log>>

\* Lines 33-34: read_line appends the next line of standard input, with its
\* terminator, to the empty string.
ReadLineOfStdin ==
    /\ cli_pc = "read"
    /\ ~stdin_eof
    /\ Len(stdin) < MaxStdinLines
    /\ \E line \in CliLines :
         /\ stdin' = Append(stdin, line)
         /\ cli_input' = line \o <<Newline>>
    /\ cli_pc' = "dispatch"
    /\ UNCHANGED <<engineVars, cliFrame, cli_args, stdin_eof, cli_log,
                   cli_result>>

\* Lines 33-34: at the end of standard input, and from then on, read_line
\* returns Ok(0) and appends nothing.
ReadEndOfInput ==
    /\ cli_pc = "read"
    /\ stdin_eof' = TRUE
    /\ cli_input' = <<>>
    /\ cli_pc' = "dispatch"
    /\ UNCHANGED <<engineVars, cliFrame, cli_args, stdin, cli_log, cli_result>>

\* Lines 34-36: read_line fails.
ReadFails ==
    /\ cli_pc = "read"
    /\ cli_pc' = "returned"
    /\ cli_result' = RunErr("Failed to read input")
    /\ UNCHANGED <<engineVars, cliFrame, cli_args, stdin, stdin_eof, cli_input,
                   cli_log>>

\* Lines 38-41: an input that is empty after trim starts the loop again.
Continue ==
    /\ cli_pc = "dispatch"
    /\ trim(cli_input) = <<>>
    /\ cli_pc' = "prompt"
    /\ UNCHANGED <<engineVars, cliFrame, cli_args, stdin, stdin_eof, cli_input,
                   cli_log, cli_result>>

\* Lines 43-45 and 54: "exit" or "quit" leaves the loop, run returns Ok(()).
Break ==
    /\ cli_pc = "dispatch"
    /\ trim(cli_input) # <<>>
    /\ IsExitOrQuit(trim(cli_input))
    /\ cli_pc' = "returned"
    /\ cli_result' = RunOk
    /\ UNCHANGED <<engineVars, cliFrame, cli_args, stdin, stdin_eof, cli_input,
                   cli_log>>

\* Lines 47-50: the line is evaluated and its value or its error reported.
EvaluateLine ==
    /\ cli_pc = "dispatch"
    /\ trim(cli_input) # <<>>
    /\ ~IsExitOrQuit(trim(cli_input))
    /\ LET parsed == EvaluateOf[trim(cli_input)] IN
         /\ cli_log' = Append(cli_log, IF parsed.ok
                                          THEN Println("= ", parsed.val)
                                          ELSE Eprintln(parsed.kind))
         /\ cli_pc' = AfterReport(parsed)
    /\ UNCHANGED <<engineVars, cliFrame, cli_args, stdin, stdin_eof, cli_input,
                   cli_result>>

CliNext ==
    \/ Expression \/ Interactive \/ Prompt \/ FlushFails \/ ReadLineOfStdin
    \/ ReadEndOfInput \/ ReadFails \/ Continue \/ Break \/ EvaluateLine

CliSpec == CliInit /\ [][CliNext]_vars

\* The process is scheduled: a step of run that can be taken is taken.
CliFairSpec == CliSpec /\ WF_vars(CliNext)

(* ---- process_data: the walk while tasks create output files ---- *)

\* The input root holds one or two files; the output directory inside it
\* may exist already, empty or with a file of an earlier job.
NestedInit ==
    /\ EngineIdle
    /\ StratIdle
    /\ LinkIdle
    /\ DbIdle
    /\ WalkerIdle
    /\ CalcIdle
    /\ CliIdle
    /\ input_path = InputRoot
    /\ output_base_path \in OutputRoots
    /\ entry_path = [k \in PathEntries |-> <<>>]
    /\ output_file_path = [k \in PathEntries |-> NoOutputPath]
    /\ \E dirs \in {{InputRoot}, {InputRoot, <<"x", "y">>}} :
         /\ fs_dirs = dirs
         /\ \E top \in (SUBSET {<<"x", "x">>, <<"x", "z">>}) \ {{}} :
              fs_files \in
                {top} \cup (IF <<"x", "y">> \in dirs
                              THEN {top \cup {<<"x", "y", "x">>}} ELSE {})
    /\ start_files = fs_files
    /\ dir_stack = <<OpenDir(InputRoot, fs_files \cup fs_dirs)>>
    /\ dispatched = {}
    /\ written = {}
    /\ nested_pc = "walk"

\* The entries the iterator may yield next from the directory on top of the
\* stack: those that exist now and were not yielded.  read_dir need not
\* return an entry created after the directory was opened.
NextEntries ==
    LET top == dir_stack[Len(dir_stack)] IN
      Children(top.path, fs_files \cup fs_dirs) \ top.seen

\* The stack with `entry` marked as yielded in its top directory.
MarkSeen(entry) ==
    [dir_stack EXCEPT ![Len(dir_stack)].seen = @ \cup {entry}]

\* Lines 160-237: the iterator yields a regular file; it is admitted, its
\* output path is computed and its task is spawned.
YieldFile ==
    /\ nested_pc = "walk"
    /\ dir_stack # <<>>
    /\ \E entry \in NextEntries :
         /\ entry \in fs_files
         /\ dir_stack' = MarkSeen(entry)
         /\ dispatched' =
              IF OutputFilePath(entry, input_path, output_base_path).state = "ok"
                THEN dispatched \cup {entry} ELSE dispatched
    /\ UNCHANGED <<engineVars, nestedFrame, pathVars, fs_files, fs_dirs,
                   start_files, written, nested_pc>>

\* Lines 160-174: the iterator yields a directory, which is not a file and
\* is skipped by the loop, and opens it to descend.
YieldDir ==
    /\ nested_pc = "walk"
    /\ dir_stack # <<>>
    /\ \E entry \in NextEntries :
         /\ entry \in fs_dirs
         /\ dir_stack' =
              Append(MarkSeen(entry), OpenDir(entry, fs_files \cup fs_dirs))
    /\ UNCHANGED <<engineVars, nestedFrame, pathVars, fs_files, fs_dirs,
                   start_files, dispatched, written, nested_pc>>

\* The directory on top of the stack is exhausted: every entry it held when
\* it was opened has been yielded.  The walk ends with the root.
LeaveDir ==
    /\ nested_pc = "walk"
    /\ dir_stack # <<>>
    /\ dir_stack[Len(dir_stack)].snapshot \subseteq dir_stack[Len(dir_stack)].seen
    /\ dir_stack' = SubSeq(dir_stack, 1, Len(dir_stack) - 1)
    /\ nested_pc' = IF Len(dir_stack) = 1 THEN "walked" ELSE "walk"
    /\ UNCHANGED <<engineVars, nestedFrame, pathVars, fs_files, fs_dirs,
                   start_files, dispatched, written>>

\* Lines 34-53, 98-117: the task of a dispatched file creates the
\* directories of its output path and the output file.
TaskWrites ==
    /\ \E entry \in dispatched \ written :
         LET output == OutputFilePath(entry, input_path, output_base_path).path IN
           /\ Len(output) <= MaxPathLen
           /\ fs_dirs' = fs_dirs \cup AllDirs(ParentOf(output))
           /\ fs_files' = fs_files \cup {output}
           /\ written' = written \cup {entry}
    /\ UNCHANGED <<engineVars, nestedFrame, pathVars, start_files, dir_stack,
                   dispatched, nested_pc>>

NestedNext == YieldFile \/ YieldDir \/ LeaveDir \/ TaskWrites

NestedSpec == NestedInit /\ [][NestedNext]_vars

(* ---- derived quantities used by the properties ---- *)

Walked == 1..Len(walked)

\* Tasks that were launched.
Launched == {i \in TaskIds : task[i] # "none"}

\* Tasks that were launched and have not ended: each holds its permit.
InFlight == {i \in TaskIds : task[i] \in {"running", "exiting"}}

\* Tasks whose process_file call may still be executing.
Running == {i \in TaskIds : task[i] = "running"}

\* Permits acquired and not yet given back to the semaphore.
Outstanding == max_concurrent_io_tasks - permits

NumAdmitted == Cardinality({i \in Walked : Admitted(file_filters, walked[i])})

NumTraversalErrors == Cardinality({i \in Walked : walked[i].kind = "err"})

Done == pc = "done" /\ result.returned

(* ---- C1 ---- *)

\* C1: in every reachable state the number of outstanding permits, and the
\* number of launched tasks that have not ended, is at most the capacity.
C1_GateBound ==
    /\ Outstanding <= max_concurrent_io_tasks
    /\ Cardinality(InFlight) <= max_concurrent_io_tasks

\* The gate is saturated and the dispatch loop waits for a permit.
C1_Witness ==
    /\ pc = "acquire"
    /\ Cardinality(InFlight) = max_concurrent_io_tasks
    /\ Outstanding = max_concurrent_io_tasks

(* ---- C2 ---- *)

\* C2: a job started with maxConcurrency = k never has more than k processing
\* tasks executing at the same time.
C2_MaxConcurrencyRespected ==
    (max_concurrency.some /\ max_concurrency.value >= 1)
        => Cardinality(Running) <= max_concurrency.value

(* ---- C3 ---- *)

C5_PermitsOwnedAndReleased ==
    /\ Outstanding = Cardinality(InFlight)
    /\ Done => Outstanding = 0

\* A finished job whose tasks ended in each of the three ways.
C5_Witness ==
    /\ Done
    /\ permits = max_concurrent_io_tasks
    /\ \E i \in TaskIds : task[i] = "finished" /\ outcome[i] = "ok"
    /\ \E i \in TaskIds : task[i] = "finished" /\ outcome[i] = "err"
    /\ \E i \in TaskIds : task[i] = "panicked"

(* ---- C6 ---- *)

\* C6: under fair scheduling process_data eventually returns a
\* ProcessingResult.
C6_EventuallyReturns == <>Done

\* A job that returned after launching more tasks than the gate has permits.
C6_Witness ==
    /\ Done
    /\ Cardinality(Launched) > max_concurrent_io_tasks
    /\ \E i \in TaskIds : outcome[i] = "panic"

(* ---- C7 ---- *)

\* C7: once the result has been produced every launched task has ended, and
\* the counters hold the values that were returned.
C7_ReturnAfterAllTasksEnded ==
    result.returned =>
        /\ \A i \in Launched : task[i] \in {"finished", "panicked"}
        /\ result.total_files_processed = total_files_processed
        /\ result.errors_encountered = errors_encountered

\* A returned job that launched a task for every walked entry.
C7_Witness ==
    /\ result.returned
    /\ Cardinality(Launched) = MaxEntries
    /\ result.total_files_processed >= 1

(* ---- C8 ---- *)

\* C8: joining a crashed task adds one to errors_encountered and leaves the
\* orchestrator in its join loop with the remaining handles, and the job ends
\* only by returning a result with every handle awaited.
C8_CrashIsCountedAndJoinContinues ==
    [][/\ (/\ pc = "join"
           /\ processing_futures # <<>>
           /\ task[Head(processing_futures)] = "panicked"
           /\ processing_futures' # processing_futures)
          => /\ errors_encountered' = errors_encountered + 1
             /\ total_files_processed' = total_files_processed
             /\ pc' = "join"
             /\ processing_futures' = Tail(processing_futures)
             /\ task' = task
       /\ pc' \notin {"walk", "acquire", "join"}
          => /\ pc' = "done"
             /\ result'.returned
             /\ processing_futures' = <<>>
             /\ \A i \in TaskIds : task'[i] \in {"none", "finished", "panicked"}
      ]_vars

\* A returned job in which a task crashed and a task launched after it was
\* still awaited and counted.
C8_Witness ==
    /\ Done
    /\ \E i, j \in TaskIds :
         /\ i < j
         /\ task[i] = "panicked"
         /\ task[j] = "finished"
         /\ okIncs[j] = 1

(* ---- C9 ---- *)

\* C9: a traversal error item adds exactly one to errors_encountered,
\* launches nothing and takes no permit, and the loop goes on to the next
\* item; at return every walked entry that is admitted (and whose output path
\* could be computed) was launched, wherever the errors were.
C9_TraversalErrorCountedWalkContinues ==
    [][/\ (Len(walked') = Len(walked) + 1 /\ walked'[Len(walked')].kind = "err")
          => /\ errors_encountered' = errors_encountered + 1
             /\ total_files_processed' = total_files_processed
             /\ task' = task
             /\ permits' = permits
             /\ processing_futures' = processing_futures
             /\ pc' = "walk"
       /\ pc' = "done"
          => \A i \in 1..Len(walked') :
                (Admitted(file_filters, walked'[i]) /\ walked'[i].relOk)
                    <=> task'[i] # "none"
      ]_vars

\* A returned job whose walk yielded an error item and, after it, a file
\* that was processed successfully.
C9_Witness ==
    /\ Done
    /\ \E i, j \in Walked :
         /\ i < j
         /\ walked[i].kind = "err"
         /\ task[j] = "finished"
         /\ outcome[j] = "ok"
    /\ result.total_files_processed >= 1
    /\ result.errors_encountered >= 1

(* ---- C10 ---- *)

\* C10: a job whose inputRoot does not exist never returns a
\* ProcessingResult (it ends with a setup error instead).
C10_MissingRootNeverReturnsResult ==
    ~rootExists => ~result.returned

(* ---- C11 ---- *)

\* C11: a job whose maxConcurrency is zero is rejected before the walk: it
\* launches no task and never returns a ProcessingResult.
C11_InvalidConcurrencyRejected ==
    (max_concurrency.some /\ max_concurrency.value <= 0)
        => (Launched = {} /\ ~result.returned)

(* ---- C12 ---- *)

\* C12: with includeExtensions set, every launched entry is a file whose
\* extension exists and is in the set; and for includeExtensions = {txt} and
\* the walk a.txt, b.log, c exactly a.txt is launched.
C12_IncludeFilter ==
    /\ file_filters.include_extensions.some
         => \A i \in Walked :
               task[i] # "none"
                 => /\ walked[i].kind = "file"
                    /\ walked[i].ext # NoExt
                    /\ walked[i].ext \in file_filters.include_extensions.set
    /\ (/\ Done
        /\ file_filters = [include_extensions |-> SomeFilter({"txt"}),
                           exclude_extensions |-> NoneFilter]
        /\ walked = <<[kind |-> "file", ext |-> "txt", relOk |-> TRUE],
                      [kind |-> "file", ext |-> "log", relOk |-> TRUE],
                      [kind |-> "file", ext |-> NoExt, relOk |-> TRUE]>>)
         => Launched = {1}

\* The job includeExtensions = {txt} over a.txt, b.log, c has returned with
\* one file processed.
C12_Witness ==
    /\ Done
    /\ file_filters.include_extensions = SomeFilter({"txt"})
    /\ walked = <<[kind |-> "file", ext |-> "txt", relOk |-> TRUE],
                  [kind |-> "file", ext |-> "log", relOk |-> TRUE],
                  [kind |-> "file", ext |-> NoExt, relOk |-> TRUE]>>
    /\ Launched = {1}
    /\ result.total_files_processed = 1

(* ---- C13 ---- *)

\* C13: with excludeExtensions set, no launched entry has an extension of the
\* set, whatever the include list is; and at return, with an exclude list and
\* no include list, every extensionless file was launched.
C13_ExcludeFilter ==
    /\ file_filters.exclude_extensions.some
         => \A i \in Walked :
               task[i] # "none"
                 => walked[i].ext \notin file_filters.exclude_extensions.set
    /\ (/\ Done
        /\ file_filters.exclude_extensions.some
        /\ ~file_filters.include_extensions.some)
         => \A i \in Walked :
               (walked[i].kind = "file" /\ walked[i].ext = NoExt)
                  => task[i] # "none"

\* A returned job with an exclude list and no include list that walked
\* a.txt, b.log and an extensionless file and launched all but b.log.
C13_Witness ==
    /\ Done
    /\ file_filters.exclude_extensions = SomeFilter({"log"})
    /\ ~file_filters.include_extensions.some
    /\ walked = <<[kind |-> "file", ext |-> "txt", relOk |-> TRUE],
                  [kind |-> "file", ext |-> "log", relOk |-> TRUE],
                  [kind |-> "file", ext |-> NoExt, relOk |-> TRUE]>>
    /\ Launched = {1, 3}

(* ---- C14 ---- *)

\* C14: the step that takes a non-file entry from the walker acquires no
\* permit, launches no task and changes neither counter, and no task ever
\* exists for such an entry.
C14_NonFileNeverDispatched ==
    [][/\ (Len(walked') = Len(walked) + 1 /\ walked'[Len(walked')].kind = "dir")
          => /\ permits' = permits
             /\ task' = task
             /\ processing_futures' = processing_futures
             /\ total_files_processed' = total_files_processed
             /\ errors_encountered' = errors_encountered
             /\ pc' = "walk"
       /\ \A i \in 1..Len(walked') :
             walked'[i].kind = "dir"
                => (task'[i] = "none" /\ okIncs'[i] = 0 /\ errIncs'[i] = 0)
      ]_vars

\* A returned unfiltered job that walked a directory and then a file it
\* processed.
C14_Witness ==
    /\ Done
    /\ ~file_filters.include_extensions.some
    /\ ~file_filters.exclude_extensions.some
    /\ \E i, j \in Walked :
         /\ i < j
         /\ walked[i].kind = "dir"
         /\ task[i] = "none"
         /\ task[j] = "finished"

(* ---- C16 ---- *)

\* C16: the step that takes an admitted file whose relative path cannot be
\* computed adds exactly one to errors_encountered, acquires no permit,
\* launches no task and stays in the walk; no task ever exists for such a
\* file, which accounts for exactly one error.
C16_PathErrorCountedAndSkipped ==
    [][/\ (/\ Len(walked') = Len(walked) + 1
           /\ Admitted(file_filters, walked'[Len(walked')])
           /\ ~walked'[Len(walked')].relOk)
          => /\ errors_encountered' = errors_encountered + 1
             /\ total_files_processed' = total_files_processed
             /\ permits' = permits
             /\ task' = task
             /\ processing_futures' = processing_futures
             /\ pc' = "walk"
       /\ \A i \in 1..Len(walked') :
             (Admitted(file_filters, walked'[i]) /\ ~walked'[i].relOk)
                => (task'[i] = "none" /\ okIncs'[i] = 0 /\ errIncs'[i] = 1)
      ]_vars

\* A returned job that met a path error and afterwards processed a file.
C16_Witness ==
    /\ Done
    /\ \E i, j \in Walked :
         /\ i < j
         /\ Admitted(file_filters, walked[i])
         /\ ~walked[i].relOk
         /\ errIncs[i] = 1
         /\ task[j] = "finished"
    /\ result.errors_encountered >= 1

(* ---- C20 ---- *)

\* C20: a task whose process_file call has ended (in success, failure or
\* crash) never runs process_file again; a task is launched only for the
\* entry the walker yielded last, and a walk step only appends one entry to
\* the entries already visited.
C20_ProcessedAtMostOnce ==
    [][/\ \A i \in TaskIds :
             /\ outcome'[i] # "none" => task'[i] # "running"
             /\ (task[i] # "running" /\ task'[i] = "running")
                   => (task[i] = "none" /\ i = Len(walked))
       /\ walked' # walked
             => (Len(walked') = Len(walked) + 1
                 /\ SubSeq(walked', 1, Len(walked)) = walked)
       /\ Len(processing_futures') > Len(processing_futures)
             => (/\ processing_futures' = Append(processing_futures, Len(walked))
                 /\ task[Len(walked)] = "none")
      ]_vars

\* A returned job in which one file failed, one crashed and one succeeded,
\* each counted once.
C20_Witness ==
    /\ Done
    /\ \E i, j, k \in TaskIds :
          /\ outcome[i] = "err" /\ task[i] = "finished"
          /\ outcome[j] = "panic" /\ task[j] = "panicked"
          /\ outcome[k] = "ok"
    /\ result.total_files_processed + result.errors_encountered = 3

(* ---- C15 ---- *)

\* C15: an entry that got an output path lies under input_path, and its
\* output path is output_base_path followed by the entry's path relative to
\* input_path; two distinct entries never get the same output path.
C15_OutputPathMirrorsInput ==
    /\ \A k \in PathEntries :
          output_file_path[k].state = "ok"
            => \E rel \in Paths :
                  /\ entry_path[k] = input_path \o rel
                  /\ output_file_path[k].path = output_base_path \o rel
    /\ \A k, l \in PathEntries :
          (/\ output_file_path[k].state = "ok"
           /\ output_file_path[l].state = "ok"
           /\ entry_path[k] # entry_path[l])
            => output_file_path[k].path # output_file_path[l].path

\* Two files of the same name in different directories below input_path got
\* their output paths.
C15_Witness ==
    /\ input_path = <<"x">>
    /\ output_base_path = <<"y">>
    /\ entry_path[1] = <<"x", "x", "y">>
    /\ entry_path[2] = <<"x", "y", "y">>
    /\ output_file_path[1] = [state |-> "ok", path |-> <<"y", "x", "y">>]
    /\ output_file_path[2] = [state |-> "ok", path |-> <<"y", "y", "y">>]

(* ---- C17 ---- *)

\* C17: process_file returns Ok only if none of its I/O steps failed; when a
\* step failed it returns Err; and the task counts an Err once in
\* errors_encountered and never in total_files_processed, an Ok once in
\* total_files_processed.
C17_IoFailureSurfacedAndCounted ==
    /\ (sPc \in {"returned", "counted"} /\ sResult = "ok")
          => failedStep = "none"
    /\ (sPc \in {"returned", "counted"} /\ failedStep # "none")
          => sResult = "err"
    /\ (sPc \notin {"returned", "counted"}) => failedStep = "none"
    /\ (sPc = "counted" /\ sResult = "err")
          => total_files_processed = 0 /\ errors_encountered = 1
    /\ (sPc = "counted" /\ sResult = "ok")
          => total_files_processed = 1 /\ errors_encountered = 0

\* The last I/O step of ExtractFirstLines, flush, failed after the whole
\* output had been written, and the task counted the failure.
C17_Witness ==
    /\ sPc = "counted"
    /\ failedStep = "flush"
    /\ sResult = "err"
    /\ out_file.content = FinalOutput(output_content_lines)
    /\ errors_encountered = 1

(* ---- C18 ---- *)

\* C18: once Copy has returned Ok, the output file exists below existing
\* directories and its bytes are those of the input file, whatever the
\* output path was before.
C18_CopyFidelity ==
    (/\ processing_action.kind = "Copy"
     /\ sPc \in {"returned", "counted"}
     /\ sResult = "ok")
      => /\ out_file = ExistingFile(in_content)
         /\ out_parent_exists

\* Copy succeeded onto an output file that held other, longer content.
C18_Witness ==
    /\ processing_action.kind = "Copy"
    /\ sPc = "counted"
    /\ sResult = "ok"
    /\ in_content = <<"a">>
    /\ out_before = ExistingFile(<<Newline, "a", "a">>)
    /\ out_file.content = <<"a">>

\* Copy succeeded where neither the output file nor its directories existed.
C18_WitnessAbsent ==
    /\ processing_action.kind = "Copy"
    /\ sPc = "counted"
    /\ sResult = "ok"
    /\ ~out_before.exists
    /\ out_parent_exists
    /\ in_content = <<"a", Newline, "a">>

(* ---- C19 ---- *)

\* The lines, each followed by a newline.
RECURSIVE EachFollowedByNewline(_)
EachFollowedByNewline(lines) ==
    IF lines = <<>> THEN <<>>
    ELSE lines[1] \o <<Newline>> \o EachFollowedByNewline(Tail(lines))

Min(a, b) == IF a <= b THEN a ELSE b

\* The number of lines ExtractFirstLines has to write: min(n, L).
NumExtracted == Min(processing_action.num_lines, Len(SplitLines(in_content)))

\* The first min(n, L) lines of the input.
FirstLines == SubSeq(SplitLines(in_content), 1, NumExtracted)

ExtractSucceeded ==
    /\ processing_action.kind = "ExtractFirstLines"
    /\ sPc \in {"returned", "counted"}
    /\ sResult = "ok"

\* C19 as stated: after a successful ExtractFirstLines{n} on an input of L
\* lines the output is exactly the first min(n, L) lines, each followed by a
\* newline, for every n >= 0 and L >= 0.
C19_ExactlyFirstLines ==
    ExtractSucceeded => out_file = ExistingFile(EachFollowedByNewline(FirstLines))

(* ---- C21 ---- *)

\* The counts fixed by the walked tree, the filters and each file's outcome.
CountsOfOutcomes ==
    [returned |-> TRUE,
     total_files_processed |->
         Cardinality({i \in Walked : outcome[i] = "ok"}),
     errors_encountered |->
         Cardinality({i \in Walked :
                        \/ walked[i].kind = "err"
                        \/ (Admitted(file_filters, walked[i])
                              /\ ~walked[i].relOk)
                        \/ outcome[i] \in {"err", "panic"}})]

\* C21: the returned ProcessingResult is a function of the walked tree, the
\* filters and the outcome of each file's processing alone: it is the same in
\* every interleaving and completion order, and stays so once returned.
C21_ResultIndependentOfInterleaving ==
    result.returned => result = CountsOfOutcomes

\* A returned job of three files that ended in a success, a failure and a
\* crash.
C21_Witness ==
    /\ Done
    /\ outcome[1] = "panic"
    /\ outcome[2] = "ok"
    /\ outcome[3] = "err"
    /\ result = [returned |-> TRUE, total_files_processed |-> 1,
                 errors_encountered |-> 2]

\* The second file's task has ended while the first, launched earlier, still
\* runs: the completion order differs from the launch order.
C21_WitnessOutOfOrder ==
    /\ task[1] = "running"
    /\ task[2] = "finished"

(* ---- C23 ---- *)

\* C23: the step that takes a regular file rejected by the include or the
\* exclude filter acquires no permit, launches no task, changes neither
\* counter and stays in the walk; no task, hence no process_file call that
\* could create its output, ever exists for such a file; and the job
\* includeExtensions = {txt} over a.txt, b.log, c.txt whose copies succeed
\* returns 2 processed and 0 errors with tasks for a.txt and c.txt only.
C23_RejectedEntryHasNoEffect ==
    [][LET rejected(item) ==
             /\ item.kind = "file"
             /\ \/ /\ file_filters.include_extensions.some
                   /\ \/ item.ext = NoExt
                      \/ item.ext \notin file_filters.include_extensions.set
                \/ /\ file_filters.exclude_extensions.some
                   /\ item.ext \in file_filters.exclude_extensions.set
       IN /\ (Len(walked') = Len(walked) + 1 /\ rejected(walked'[Len(walked')]))
             => /\ permits' = permits
                /\ task' = task
                /\ outcome' = outcome
                /\ processing_futures' = processing_futures
                /\ total_files_processed' = total_files_processed
                /\ errors_encountered' = errors_encountered
                /\ pc' = "walk"
          /\ \A i \in 1..Len(walked') :
                rejected(walked'[i])
                  => /\ task'[i] = "none"
                     /\ outcome'[i] = "none"
                     /\ okIncs'[i] = 0
                     /\ errIncs'[i] = 0
          /\ (/\ result'.returned
              /\ file_filters = [include_extensions |-> SomeFilter({"txt"}),
                                 exclude_extensions |-> NoneFilter]
              /\ walked' = <<[kind |-> "file", ext |-> "txt", relOk |-> TRUE],
                             [kind |-> "file", ext |-> "log", relOk |-> TRUE],
                             [kind |-> "file", ext |-> "txt", relOk |-> TRUE]>>
              /\ \A i \in {1, 3} : outcome'[i] \in {"ok", "none"})
               => /\ result'.total_files_processed = 2
                  /\ result'.errors_encountered = 0
                  /\ task'[1] = "finished"
                  /\ task'[2] = "none"
                  /\ task'[3] = "finished"
      ]_vars

\* The job includeExtensions = {txt} over a.txt, b.log, c.txt has returned:
\* two files processed, no error, no task for b.log.
C23_Witness ==
    /\ Done
    /\ file_filters = [include_extensions |-> SomeFilter({"txt"}),
                       exclude_extensions |-> NoneFilter]
    /\ walked = <<[kind |-> "file", ext |-> "txt", relOk |-> TRUE],
                  [kind |-> "file", ext |-> "log", relOk |-> TRUE],
                  [kind |-> "file", ext |-> "txt", relOk |-> TRUE]>>
    /\ task[2] = "none"
    /\ outcome[2] = "none"
    /\ result = [returned |-> TRUE, total_files_processed |-> 2,
                 errors_encountered |-> 0]

(* ---- C22 ---- *)

\* C22: when the walk has ended, every link to a regular file was taken as a
\* regular file, and the regular file below every link to a directory was
\* enumerated.
C22_SymlinksFollowed ==
    walk_at.entry > MaxEntries
      => \A k \in 1..MaxEntries :
            /\ dir_entries[k] = "link_to_file"
                  => [entry |-> k, below |-> FALSE] \in files_seen
            /\ dir_entries[k] = "link_to_dir"
                  => [entry |-> k, below |-> TRUE] \in files_seen

(* ---- C24 ---- *)

\* C24: the table holds at most one row per path, and for every path that
\* was inserted the row of that path carries the values of the most recent
\* committed insert for that path.
C24_OneRowPerPathWithLatestValues ==
    /\ \A r, o \in files : r.path = o.path => r = o
    /\ \A p \in DbPaths :
          last_insert[p] # NoInsert
            => [path |-> to_string_lossy(p), checksum |-> last_insert[p]]
                  \in files

(* ---- C25 ---- *)

\* C25: whenever get_duplicate_files returns rows, they are exactly the
\* committed rows whose checksum another committed row has too, each once,
\* in ascending order of checksum and, within a checksum, of path.
C25_DuplicatesExactAndOrdered ==
    [][(duplicates' # duplicates /\ duplicates'.ok)
         => LET rows == duplicates'.rows IN
              /\ {rows[i] : i \in 1..Len(rows)}
                   = {r \in files : \E o \in files :
                                      o # r /\ o.checksum = r.checksum}
              /\ \A i, j \in 1..Len(rows) :
                    i < j
                      => \/ TextRank(rows[i].checksum) < TextRank(rows[j].checksum)
                         \/ /\ rows[i].checksum = rows[j].checksum
                            /\ TextRank(rows[i].path) < TextRank(rows[j].path)
      ]_vars

\* Four rows in two groups of equal checksums were returned, ordered by
\* checksum and then by path.
C25_Witness ==
    /\ duplicates.ok
    /\ duplicates.rows = <<[path |-> "b", checksum |-> "c1"],
                           [path |-> "U+FFFD", checksum |-> "c1"],
                           [path |-> "a", checksum |-> "c2"],
                           [path |-> "c", checksum |-> "c2"]>>

\* After an update made the checksum of a returned row unique, the query
\* returned no row.
C25_WitnessAfterUpdate ==
    /\ duplicates = [ok |-> TRUE, rows |-> <<>>]
    /\ files = {[path |-> "a", checksum |-> "c2"],
                [path |-> "b", checksum |-> "c1"]}
    /\ last_insert["a"] = "c2"
    /\ db_result = "ok"

(* ---- C26 ---- *)

\* C26: the committed table changes only in the step in which
\* insert_file_metadata commits and returns Ok; a call that returns Err
\* leaves the table as it was before the call, whatever part of the batch
\* had been executed.
C26_InsertIsAtomic ==
    [][/\ files' # files
          => (db_pc = "tx" /\ db_pc' = "idle" /\ db_result' = "ok")
       /\ db_result' = "err" => files' = files
       /\ db_pc' = "tx" => files' = files
      ]_vars

\* A call failed after it had replaced a stored row and added another
\* inside its transaction; the table still holds the one row it held.
C26_Witness ==
    /\ db_pc = "idle"
    /\ db_result = "err"
    /\ tx_count = 2
    /\ files = {[path |-> "a", checksum |-> "c1"]}
    /\ tx_last["a"] = "c1"

(* ---- C27 ---- *)

\* The places of the paths of a result.
PathSet(paths) == {paths[i] : i \in 1..Len(paths)}

C27_WitnessEmpty ==
    /\ root_type = "dir"
    /\ \A k \in Slots : tree[k] = "none"
    /\ walk_result = [state |-> "ok", paths |-> <<>>]

(* ---- C28 ---- *)

\* C28: for a root that does not exist the call returns the NotFound error
\* and no list; for a root that is a regular file it returns exactly the
\* root's path.
C28_MissingRootAndFileRoot ==
    walker_pc = "returned"
      => /\ root_type = "missing"
            => walk_result = [state |-> "NotFound", paths |-> <<>>]
         /\ root_type = "file"
            => walk_result = [state |-> "ok", paths |-> <<0>>]

\* The call on a missing root has returned.
C28_Witness ==
    /\ walker_pc = "returned"
    /\ root_type = "missing"
    /\ walk_result.state = "NotFound"

\* The call on a root that is a regular file has returned.
C28_WitnessFileRoot ==
    /\ walker_pc = "returned"
    /\ root_type = "file"
    /\ walk_result.paths = <<0>>

(* ---- C29 ---- *)

\* The directories above slot k, the root included.
RECURSIVE Above(_)
Above(k) == IF k = 0 THEN {} ELSE {TreeParent[k]} \cup Above(TreeParent[k])

\* C29: when the root or a directory below it cannot be read, the call on
\* the existing directory root still returns Ok, and a regular file is in
\* the result exactly if no directory above it is unreadable.
C29_UnreadableDirectorySkipped ==
    (/\ walker_pc = "returned"
     /\ \E k \in Slots \cup {0} : TypeOf(k) = "locked")
      => /\ walk_result.state = "ok"
         /\ \A k \in Slots :
               tree[k] = "file"
                 => (k \in PathSet(walk_result.paths)
                       <=> \A a \in Above(k) : TypeOf(a) # "locked")

\* A root with an unreadable directory that holds a file, and a file next
\* to it: only the latter was returned.
C29_Witness ==
    /\ root_type = "dir"
    /\ tree = <<"locked", "none", "none", "file", "file">>
    /\ walk_result = [state |-> "ok", paths |-> <<5>>]

(* ---- C30 ---- *)

\* C30: evaluate never returns a division-by-zero error, and for the input
\* "5 / 0" it returns Ok with an infinite value.
C30_DivisionByZeroIsInfinite ==
    calc_pc = "returned"
      => /\ calc_result.kind # "DivisionByZero"
         /\ calc_input = <<"5", " ", "/", " ", "0">>
              => (calc_result.ok /\ calc_result.val.d = 0)

(* ---- C31 ---- *)

\* The binary operators of the grammar (lines 13-16).
Operators == {"Plus", "Minus", "Star", "Slash"}

\* An operator that does not stand between two operands: the first token,
\* the last token, or the second of two operators in a row.
MisplacedOperator(tokens) ==
    /\ tokens # <<>>
    /\ \/ tokens[1].type \in Operators
       \/ tokens[Len(tokens)].type \in Operators
       \/ \E k \in 1..(Len(tokens) - 1) :
            tokens[k].type \in Operators /\ tokens[k + 1].type \in Operators

\* C31: evaluate returns an error for every expression with a leading
\* operator, a trailing operator or two consecutive operators.
C31_MisplacedOperatorRejected ==
    (calc_pc = "returned" /\ MisplacedOperator(TokensFrom(calc_input, 1)))
      => ~calc_result.ok

(* ---- C32 ---- *)

\* The lines of the model that end an interactive session.
EndsSession(line) == line \in {ExitWord, QuitWord, <<" ", "E", "X", "I", "T">>}

\* What an interactive session prints for the given lines, in order: nothing
\* for a blank line, else the value of the line or the error it raised.
RECURSIVE ReportsOf(_)
ReportsOf(lines) ==
    IF lines = <<>> THEN <<>>
    ELSE (IF Head(lines) = <<>> \/ EndsSession(Head(lines)) THEN <<>>
          ELSE IF EvaluateOf[Head(lines)].ok
            THEN <<Println("= ", EvaluateOf[Head(lines)].val)>>
            ELSE <<Eprintln(EvaluateOf[Head(lines)].kind)>>)
           \o ReportsOf(Tail(lines))

\* What lines 16-21 printed before the interactive loop started.
ExpressionReport ==
    IF cli_args.expression.some
      THEN <<Println("", EvaluateOf[cli_args.expression.expr].val)>>
      ELSE <<>>

\* The number of lines the loop has dealt with: all that were read, but for
\* the one just read and not yet looked at.
LinesDone ==
    IF cli_pc = "dispatch" /\ cli_input # <<>>
      THEN Len(stdin) - 1
      ELSE Len(stdin)

\* The interactive loop has been entered.
InLoop ==
    \/ cli_pc \in {"prompt", "read", "dispatch"}
    \/ /\ cli_pc = "returned"
       /\ cli_args.interactive
       /\ cli_log # <<>> \/ ~cli_args.expression.some

\* C32: in interactive mode every line read so far has been reported in
\* order, whether it evaluated or failed; a failed line does not end the
\* session (run returns only on "exit"/"quit" or on a failed read or flush);
\* and once a line equal to "exit" or "quit" is read, run has returned
\* Ok(()) without reading a further line.
C32_SessionSurvivesErrors ==
    InLoop =>
      /\ cli_log = ExpressionReport \o ReportsOf(SubSeq(stdin, 1, LinesDone))
      /\ cli_pc = "returned" =>
           \/ cli_result \in {RunErr("Failed to flush stdout"),
                              RunErr("Failed to read input")}
           \/ /\ cli_result = RunOk
              /\ stdin # <<>>
              /\ EndsSession(stdin[Len(stdin)])
      /\ \A k \in 1..LinesDone :
           stdin[k] \in {ExitWord, QuitWord}
             => (cli_pc = "returned" /\ cli_result = RunOk /\ Len(stdin) = k)

\* A session whose first line failed to evaluate: the error was reported,
\* the next line was evaluated, and "exit" ended the session with Ok(()).
C32_Witness ==
    /\ stdin = <<<<"5", "/", "0">>, <<"5", "+", "5">>, ExitWord>>
    /\ cli_pc = "returned"
    /\ cli_result = RunOk
    /\ cli_log = <<Eprintln("DivisionByZero"), Println("= ", Value(10, 1))>>

(* ---- C40 ---- *)

\* C40: when read_line meets the end of standard input (it leaves `input`
\* empty) the interactive session comes to an end: run returns.
C40_TerminatesAtEndOfInput ==
    stdin_eof ~> (cli_pc = "returned")

(* ---- C33 ---- *)

\* C33: a task is launched only by the dispatch loop at acquire, in the step
\* that takes a permit; and while every permit is outstanding the loop stays
\* at acquire, launches nothing and takes no entry from the walker, so it
\* goes on only after a task has given a permit back.
C33_LaunchOnlyAfterAcquire ==
    [][/\ (\E i \in TaskIds : task[i] = "none" /\ task'[i] # "none")
            => /\ pc = "acquire"
               /\ Outstanding < max_concurrent_io_tasks
               /\ Outstanding' = Outstanding + 1
       /\ (pc = "acquire" /\ Outstanding = max_concurrent_io_tasks)
            => /\ pc' = "acquire"
               /\ walked' = walked
               /\ Launched' = Launched
               /\ processing_futures' = processing_futures]_vars

\* One more task than the gate has permits was launched, and the gate is
\* full again: the loop had been held at acquire until a task ended.
C33_Witness ==
    /\ pc = "walk"
    /\ Cardinality(Launched) = max_concurrent_io_tasks + 1
    /\ Outstanding = max_concurrent_io_tasks

(* ---- C34 ---- *)

\* Increments of total_files_processed performed by the step: the tasks
\* whose process_file call returned Ok in it.
OkIncrementsOfStep ==
    Cardinality({i \in TaskIds : outcome[i] = "none" /\ outcome'[i] = "ok"})

\* Increments of errors_encountered performed by the step: the tasks whose
\* call returned Err in it, a traversal error or a path failure met by the
\* walk in it, and a crashed task joined in it.
ErrIncrementsOfStep ==
    Cardinality({i \in TaskIds : outcome[i] = "none" /\ outcome'[i] = "err"})
      + (IF /\ Len(walked') = Len(walked) + 1
            /\ \/ walked'[Len(walked')].kind = "err"
               \/ /\ Admitted(file_filters, walked'[Len(walked')])
                  /\ ~walked'[Len(walked')].relOk
           THEN 1 ELSE 0)
      + (IF /\ Len(processing_futures') = Len(processing_futures) - 1
            /\ task[Head(processing_futures)] = "panicked"
           THEN 1 ELSE 0)

\* C34: every step leaves each counter at its old value plus the increments
\* performed in the step, so a counter never decreases and no increment of
\* tasks that complete next to each other is lost.
C34_CountersCountEveryIncrement ==
    [][/\ total_files_processed' = total_files_processed + OkIncrementsOfStep
       /\ errors_encountered' = errors_encountered + ErrIncrementsOfStep
       /\ total_files_processed' >= total_files_processed
       /\ errors_encountered' >= errors_encountered]_vars

\* Two tasks ran side by side, one returned Ok and one Err, and both have
\* counted before either of them ended.
C34_Witness ==
    /\ task[1] = "exiting"
    /\ task[2] = "exiting"
    /\ outcome[1] = "ok"
    /\ outcome[2] = "err"
    /\ total_files_processed = 1
    /\ errors_encountered = 1

(* ---- C35 ---- *)

\* The entries of the walk that the loop dispatches: admitted by the filters
\* and with an output path.
Dispatchable ==
    {i \in Walked : Admitted(file_filters, walked[i]) /\ walked[i].relOk}

\* C35: whatever became of the other files' tasks, every dispatchable entry
\* is dispatched (the last one may still wait for its permit), each file is
\* counted by its own outcome alone, and the returned total_files_processed
\* is the number of dispatched files whose process_file returned Ok.
C35_FailuresAreIsolated ==
    /\ \A i \in Dispatchable :
          i \in Launched \/ (i = Len(walked) /\ pc = "acquire")
    /\ Launched \subseteq Dispatchable
    /\ Done =>
         /\ Launched = Dispatchable
         /\ result.total_files_processed
              = Cardinality({i \in Launched : outcome[i] = "ok"})
         /\ \A i \in Launched :
              /\ okIncs[i] = IF outcome[i] = "ok" THEN 1 ELSE 0
              /\ errIncs[i] = IF outcome[i] = "ok" THEN 0 ELSE 1

\* A returned job whose first file failed and whose second file crashed: the
\* third was still dispatched and is the one success counted.
C35_Witness ==
    /\ Done
    /\ outcome[1] = "err"
    /\ outcome[2] = "panic"
    /\ outcome[3] = "ok"
    /\ result.total_files_processed = 1

(* ---- C36 ---- *)

\* C36: the loop leaves the walk only for the join loop, and only from the
\* iterator (not while it waits for a permit); once the join has started no
\* entry is taken and no task is launched; handles are awaited only in the
\* join loop; and the job is complete only from the join loop with no handle
\* left, and stays complete.
C36_PhasesInOrder ==
    [][/\ (pc # "join" /\ pc' = "join") => pc = "walk"
       /\ pc = "join"
            => /\ pc' \in {"join", "done"}
               /\ walked' = walked
               /\ Launched' = Launched
       /\ Len(processing_futures') < Len(processing_futures) => pc = "join"
       /\ (pc # "done" /\ pc' = "done")
            => (pc = "join" /\ processing_futures = <<>>)
       /\ pc = "done" => pc' = "done"]_vars

\* A completed job that walked entries, launched two tasks and joined both.
C36_Witness ==
    /\ pc = "done"
    /\ Cardinality(Launched) = 2
    /\ Len(walked) > 2
    /\ processing_futures = <<>>

(* ---- C37 ---- *)

\* Entries of the walk whose output path could not be computed.
NumPathErrors ==
    Cardinality({i \in Walked :
                   Admitted(file_filters, walked[i]) /\ ~walked[i].relOk})

C39_OpenFailureLeavesOutputAlone ==
    [][/\ sPc' = "open_input" => sPc = "open_input"
       /\ sPc = "open_input" => out_file = out_before
       /\ (failedStep = "none" /\ failedStep' = "open_input")
            => /\ sPc = "open_input"
               /\ sPc' = "returned"
               /\ sResult' = "err"
       /\ (failedStep = "open_input" \/ failedStep' = "open_input")
            => /\ out_file' = out_before
               /\ out_parent_exists' = out_parent_exists
               /\ sResult' = "err"]_vars

\* The input could not be opened: process_file returned Err, the output
\* file that existed keeps its bytes.
C39_Witness ==
    /\ failedStep = "open_input"
    /\ sPc = "returned"
    /\ sResult = "err"
    /\ out_before.exists
    /\ out_before.content # <<>>
    /\ out_file = out_before

\* The same where neither the output file nor its directory existed.
C39_WitnessAbsent ==
    /\ failedStep = "open_input"
    /\ sPc = "counted"
    /\ out_file = AbsentFile
    /\ ~out_parent_exists

(* ---- C38 ---- *)

\* C38: the files dispatched are files that existed when the job started,
\* never a file a task of the job created, and at the end of the walk they
\* are exactly the files that existed then.
C38_OutputsNeverDispatched ==
    /\ dispatched \subseteq start_files
    /\ nested_pc = "walked" => dispatched = start_files
====
